---- MODULE Spec2Model ----
(***************************************************************************)
(* db-change-notifier: the change-relay pipeline.                          *)
(*                                                                         *)
(*   notification listener   src/unnamed/part_003                          *)
(*   PostgreSQL adapter      src/src/adapter/postgresql/adapter.ts         *)
(*   delivery sinks          src/src/delivery/base.ts, custom.ts           *)
(*   orchestrator            src/unnamed/part_001  (ChangeNotifier)        *)
(*                                                                         *)
(* JavaScript runs one task at a time: an action is the synchronous run of *)
(* a handler from one suspension point (await, timer, I/O event) to the    *)
(* next.                                                                   *)
(***************************************************************************)
EXTENDS Integers, Sequences, FiniteSets, TLC

(***************************************************************************)
(* Bounds of the model.                                                    *)
(***************************************************************************)
MaxClients == 2
MaxInflight == 2
MaxAttempts == 6
MaxRecords == 3
MaxNotifications == 3
MaxErrorEvents == 3

NULL == 0

Min(a, b) == IF a <= b THEN a ELSE b

VARIABLES
    \* ---- notification listener (closure state of createNotificationListener)
    client,              \* the Client held, NULL when none
    connected,
    connectionAttempts,
    reconnectTimeout,    \* NULL, or the delay of the retry timer held
    retryTimers,         \* number of retry timers set and neither fired nor cleared
    cstat,               \* the Client objects: their transport state
    conns,               \* connect() invocations in flight
    disc,                \* the disconnect() invocation in flight
    \* ---- history of the listener (not program state)
    stopped,             \* disconnect() was called, connect() not since
    attemptsSince,       \* connect attempts begun + transport disconnects since the last success
    failsSince,          \* failed connect attempts since the last success
    yielded,             \* the notifications the listener's connections have emitted, in order
    passed,              \* the payloads passed to onNotification, in order
    \* ---- PostgreSQL adapter (PostgresAdapter fields)
    isListening,
    hasListener,         \* notificationListener is not null
    handlerRegistered,   \* changeEventHandler is not null
    initialized,
    triggers,            \* the trigger records, in the order pushed
    setupCall,           \* the setupChangeNotifications() invocation
    teardownCall,        \* the teardownChangeNotifications() invocation
    \* ---- the database
    dbTriggers,          \* tables carrying a committed notification trigger
    tx,                  \* the open transaction: its view of the triggers, or NoTx
    \* ---- history of the adapter (not program state)
    dbBefore,            \* dbTriggers when the call in progress or last settled began
    statements,          \* number of statements the current or last call sent
    \* ---- orchestrator (ChangeNotifier fields) and its sinks
    cfg,                 \* the NotifierConfig
    adapterSet,          \* this.adapter is not null
    deliveryMechanisms,  \* the sinks registered, in order
    sinkInit,            \* BaseDelivery.initialized of each sink
    isRunning,
    stats,
    eventBuffer,
    batchTimeout,        \* the batch timer held: batchTimeout is not null
    batchTimers,         \* number of batch timers set and neither fired nor cleared
    lastIndex,           \* lastIndex of each transformation's RegExp object
    calls,               \* the fan-out delivery calls issued, in order
    initCall,            \* the initialize() invocation
    stopCall,            \* the stop() invocation
    cleanupCall,         \* the cleanup() invocation
    nextId,              \* number of the next event to arrive
    \* ---- history of the orchestrator (not program state)
    survivors,           \* the events that survived the transformations, in arrival order
    sinkCalls,           \* per sink, the payloads passed to deliver(), in call order
    cleanupLog,          \* the cleanup steps begun by the current cleanup(), in order
    \* ---- error reporting (PostgresAdapter.errorHandlers, NotifierStats.errors)
    errorHandlers,       \* the handlers registered through onError, in order
    errors,              \* stats.errors
    now,                 \* the clock read by new Date()
    \* ---- history of the error reporting (not program state)
    invoked,             \* the handlers the last handleError() invoked, in order
    reports,             \* number of handleError() calls
    since,               \* per message, the times recorded since its entry was created
    \* ---- a caller of getStats()
    snapshot,            \* the object the last getStats() returned
    \* ---- a streaming sink on its own (BaseDelivery, ServerSentEventsDelivery)
    sseInitialized,      \* BaseDelivery.initialized
    heartbeatInterval,   \* the interval timer held, NULL when none
    timers,              \* the interval timers that are active
    sseClients,          \* the keys of the clients Map, in insertion order
    responses,           \* the response of each client: unused, open, ended
    sinkOps,             \* the calls of the sink suspended at their await, oldest first
    \* ---- history of the sink (not program state)
    received,            \* per client, the events the last deliver() wrote to it
    lastStep,            \* what the last call of the sink did, or its settling
    \* ---- the listener's error callback and a caller of the adapter
    emitter,             \* the Client whose 'error' event was handled last (history)
    notified,            \* number of calls of onError (history)
    adapterCall,         \* the start() or stop() invocation of the adapter's caller
    changeEventHandler   \* ChangeNotifier.changeEventHandler: processEvent, or the caller's h

lvars == <<client, connected, connectionAttempts, reconnectTimeout, retryTimers, cstat, conns, disc>>
lhist == <<stopped, attemptsSince, failsSince>>
subhist == <<yielded, passed>>

alisten == <<isListening, hasListener, handlerRegistered>>
avars == <<initialized, triggers, setupCall, teardownCall>>
dbvars == <<dbTriggers, tx>>
ahist == <<dbBefore, statements>>

nvars == <<cfg, adapterSet, deliveryMechanisms, sinkInit, isRunning, stats, eventBuffer,
           batchTimeout, batchTimers, lastIndex, calls, initCall, stopCall, cleanupCall, nextId>>
nhist == <<survivors, sinkCalls, cleanupLog>>

evars == <<errorHandlers, errors, now, invoked, reports, since>>

\* The components that stand beside the pipeline.
svars == <<sseInitialized, heartbeatInterval, timers, sseClients, responses, sinkOps, received, lastStep>>
cvars == <<emitter, notified, adapterCall, changeEventHandler>>
side == <<evars, snapshot, svars, cvars>>

vars == <<lvars, lhist, subhist, alisten, avars, dbvars, ahist, nvars, nhist, side>>

\* What a step of one component leaves alone.
notListener == <<subhist, alisten, avars, dbvars, ahist, nvars, nhist, side>>
notAdapter == <<lvars, lhist, subhist, alisten, nvars, nhist, side>>
notSide == <<lvars, lhist, subhist, alisten, avars, dbvars, ahist, nvars, nhist>>
notErrors == <<notSide, snapshot, svars, cvars>>
notSnapshot == <<notSide, evars, svars, cvars>>
notSink == <<notSide, evars, snapshot, cvars>>

(***************************************************************************)
(* Notification listener.                                                  *)
(***************************************************************************)
Clients == 1..MaxClients
Slots == 1..MaxInflight

IdleConn == [pc |-> "idle", awaited |-> FALSE, cl |-> NULL]
IdleDisc == [pc |-> "idle", awaited |-> FALSE, cl |-> NULL]

\* A call nobody awaits is over when it settles; an awaited one keeps its
\* outcome until the awaiting function resumes.
Settled(call, idle, ok) ==
    IF call.awaited THEN [idle EXCEPT !.pc = IF ok THEN "resolved" ELSE "rejected", !.awaited = TRUE]
                    ELSE idle
HasSettled(call) == call.pc \in {"resolved", "rejected"}

\* The delay without its 30 s ceiling.
BackoffDelayUncapped(n) == IF n = 0 THEN 500 ELSE 1000 * 2^(n - 1)

\* Math.min(1000 * Math.pow(2, connectionAttempts - 1), 30000); 2^-1 is 0.5.
BackoffDelay(n) == IF n = 0 THEN 500 ELSE Min(1000 * 2^(n - 1), 30000)

\* A Client object nothing refers to any more can stand for a new one.
Reusable(c) ==
    /\ cstat[c] \in {"free", "ended"}
    /\ client # c
    /\ \A s \in Slots : conns[s].cl # c
    /\ disc.cl # c

CanCreate == (\E c \in Clients : Reusable(c)) /\ (\E s \in Slots : conns[s].pc = "idle")
NewClient == CHOOSE c \in Clients : Reusable(c) /\ \A d \in Clients : Reusable(d) => c <= d
FreeSlot == CHOOSE s \in Slots : conns[s].pc = "idle" /\ \A t \in Slots : conns[t].pc = "idle" => s <= t

InitListener ==
    /\ client = NULL
    /\ connected = FALSE
    /\ connectionAttempts = 0
    /\ reconnectTimeout = NULL
    /\ retryTimers = 0
    /\ cstat = [c \in Clients |-> "free"]
    /\ conns = [s \in Slots |-> IdleConn]
    /\ disc = IdleDisc
    /\ stopped = FALSE
    /\ attemptsSince = 0
    /\ failsSince = 0
    /\ yielded = <<>>
    /\ passed = <<>>

\* connect(), up to `await client.connect()`.
ConnectStart(awaited) ==
    /\ ~connected
    /\ CanCreate
    /\ connectionAttempts < MaxAttempts
    /\ connectionAttempts' = connectionAttempts + 1
    /\ attemptsSince' = attemptsSince + 1
    /\ client' = NewClient
    /\ cstat' = [cstat EXCEPT ![NewClient] = "connecting"]
    /\ conns' = [conns EXCEPT ![FreeSlot] = [pc |-> "connect", awaited |-> awaited, cl |-> NewClient]]
    /\ UNCHANGED <<connected, disc, failsSince>>

\* The tail of the catch block, had it not scheduled a retry.
CatchTailNoRetry(s, cl1, cs1) ==
    /\ client' = cl1
    /\ cstat' = cs1
    /\ connected' = FALSE
    /\ conns' = [conns EXCEPT ![s] = Settled(conns[s], IdleConn, FALSE)]
    /\ failsSince' = failsSince + 1
    /\ UNCHANGED <<connectionAttempts, reconnectTimeout, retryTimers, attemptsSince, disc, stopped>>

\* handleReconnect(delay), had it not cleared the timer held.
HandleReconnectNoClear(delay) ==
    /\ reconnectTimeout' = delay
    /\ retryTimers' = retryTimers + 1

\* handleReconnect(delay): the timer held is cleared, one is set.
HandleReconnect(delay) ==
    /\ reconnectTimeout' = delay
    /\ retryTimers' = (IF reconnectTimeout # NULL THEN retryTimers - 1 ELSE retryTimers) + 1

\* The tail of connect()'s catch block: connected = false, the retry, the throw.
CatchTail(s, cl1, cs1) ==
    /\ client' = cl1
    /\ cstat' = cs1
    /\ connected' = FALSE
    /\ HandleReconnect(BackoffDelay(connectionAttempts))
    /\ conns' = [conns EXCEPT ![s] = Settled(conns[s], IdleConn, FALSE)]
    /\ failsSince' = failsSince + 1
    /\ UNCHANGED <<connectionAttempts, attemptsSince, disc, stopped>>

\* The head of connect()'s catch block: `if (client) { await client.end() ...`.
CatchHead(s, cs1) ==
    IF client # NULL
    THEN /\ cstat' = [cs1 EXCEPT ![client] = "ended"]
         /\ conns' = [conns EXCEPT ![s] = [@ EXCEPT !.pc = "end", !.cl = client]]
         /\ UNCHANGED <<client, connected, connectionAttempts, reconnectTimeout, retryTimers, disc, lhist>>
    ELSE CatchTail(s, NULL, cs1)

\* `await client.connect()` settles; on success `client.query(LISTEN)` is issued
\* on whatever `client` holds now.
ConnectOpened(s, ok) ==
    /\ UNCHANGED notListener
    /\ conns[s].pc = "connect"
    /\ ok => cstat[conns[s].cl] = "connecting"
    /\ IF ok
       THEN IF client = NULL
            THEN CatchHead(s, [cstat EXCEPT ![conns[s].cl] = "open"])
            ELSE /\ cstat' = [cstat EXCEPT ![conns[s].cl] = "open"]
                 /\ conns' = [conns EXCEPT ![s] = [@ EXCEPT !.pc = "listen", !.cl = client]]
                 /\ UNCHANGED <<client, connected, connectionAttempts, reconnectTimeout, retryTimers, disc, lhist>>
       ELSE CatchHead(s, [cstat EXCEPT ![conns[s].cl] = "ended"])

\* `await client.query(LISTEN)` settles.
ConnectListened(s, ok) ==
    /\ UNCHANGED notListener
    /\ conns[s].pc = "listen"
    /\ cstat[conns[s].cl] # "connecting"
    /\ ok => cstat[conns[s].cl] \in {"open", "listening"}
    /\ IF ok
       THEN /\ cstat' = [cstat EXCEPT ![conns[s].cl] = "listening"]
            /\ connected' = TRUE
            /\ connectionAttempts' = 0
            /\ attemptsSince' = 0
            /\ failsSince' = 0
            /\ conns' = [conns EXCEPT ![s] = Settled(conns[s], IdleConn, TRUE)]
            /\ UNCHANGED <<client, reconnectTimeout, retryTimers, disc, stopped>>
       ELSE CatchHead(s, cstat)

\* `await client.end()` of the catch block settles, whatever its outcome.
ConnectEnded(s) ==
    /\ UNCHANGED notListener
    /\ conns[s].pc = "end"
    /\ CatchTail(s, NULL, cstat)

\* The retry timer fires.
TimerFire ==
    /\ UNCHANGED notListener
    /\ retryTimers > 0
    /\ reconnectTimeout' = NULL
    /\ retryTimers' = retryTimers - 1
    /\ IF connected
       THEN UNCHANGED <<client, connected, connectionAttempts, cstat, conns, disc, lhist>>
       ELSE /\ ConnectStart(FALSE)
            /\ UNCHANGED stopped

\* The caller's connect(): `if (connected) return`.
CallConnect ==
    /\ UNCHANGED notListener
    /\ stopped' = FALSE
    /\ IF connected
       THEN /\ stopped
            /\ UNCHANGED <<lvars, attemptsSince, failsSince>>
       ELSE /\ ConnectStart(FALSE)
            /\ UNCHANGED <<reconnectTimeout, retryTimers>>

\* The 'error' handler, had handleDisconnect() kept the attempt counter.
ErrorEventOfSameAttempt(c) ==
    /\ cstat[c] \in {"open", "listening", "ended"}
    /\ IF ~connected
       THEN /\ cstat' = [cstat EXCEPT ![c] = "ended"]
            /\ UNCHANGED <<client, connected, connectionAttempts, reconnectTimeout, retryTimers, conns, disc, lhist>>
       ELSE /\ connectionAttempts < MaxAttempts
            /\ connected' = FALSE
            /\ cstat' = [d \in Clients |-> IF d = c \/ d = client THEN "ended" ELSE cstat[d]]
            /\ client' = NULL
            /\ attemptsSince' = attemptsSince + 1
            /\ HandleReconnect(BackoffDelay(connectionAttempts + 1))
            /\ UNCHANGED <<connectionAttempts, conns, disc, stopped, failsSince>>

\* The 'error' handler of Client c, after onError(err): handleDisconnect().
ErrorEventOf(c) ==
    /\ cstat[c] \in {"open", "listening", "ended"}
    /\ IF ~connected
       THEN /\ cstat' = [cstat EXCEPT ![c] = "ended"]
            /\ UNCHANGED <<client, connected, connectionAttempts, reconnectTimeout, retryTimers, conns, disc, lhist>>
       ELSE /\ connectionAttempts < MaxAttempts
            /\ connected' = FALSE
            /\ cstat' = [d \in Clients |-> IF d = c \/ d = client THEN "ended" ELSE cstat[d]]
            /\ client' = NULL
            /\ connectionAttempts' = connectionAttempts + 1
            /\ attemptsSince' = attemptsSince + 1
            /\ HandleReconnect(BackoffDelay(connectionAttempts + 1))
            /\ UNCHANGED <<conns, disc, stopped, failsSince>>

\* Client c emits 'error'.
ErrorEvent(c) == ErrorEventOf(c) /\ UNCHANGED notListener

\* Client c emits 'error', the calls of onError being counted.
TransportError(c) ==
    /\ notified < MaxErrorEvents
    /\ ErrorEventOf(c)
    /\ emitter' = c
    /\ notified' = notified + 1
    /\ UNCHANGED <<subhist, alisten, avars, dbvars, ahist, nvars, nhist, evars, snapshot, svars, adapterCall,
                 changeEventHandler>>

\* The catch block of disconnect(): `client.end()` is not awaited.
DisconnectCatch(cs1) ==
    /\ cstat' = [d \in Clients |-> IF d = client THEN "ended" ELSE cs1[d]]
    /\ client' = NULL
    /\ connected' = FALSE
    /\ disc' = Settled(disc, IdleDisc, FALSE)

\* disconnect(), up to `await client.query(UNLISTEN)`.
Disconnect(awaited) ==
    /\ disc.pc = "idle"
    /\ reconnectTimeout' = NULL
    /\ retryTimers' = IF reconnectTimeout # NULL THEN retryTimers - 1 ELSE retryTimers
    /\ stopped' = TRUE
    /\ IF ~connected \/ client = NULL
       THEN /\ disc' = Settled([disc EXCEPT !.awaited = awaited], IdleDisc, TRUE)
            /\ UNCHANGED <<client, connected, cstat>>
       ELSE /\ disc' = [pc |-> "unlisten", awaited |-> awaited, cl |-> client]
            /\ UNCHANGED <<client, connected, cstat>>
    /\ UNCHANGED <<connectionAttempts, conns, attemptsSince, failsSince>>

\* `await client.query(UNLISTEN)` settles; on success `client.end()` is called
\* on whatever `client` holds now.
DisconnectUnlistened(ok) ==
    /\ UNCHANGED notListener
    /\ disc.pc = "unlisten"
    /\ ok => cstat[disc.cl] \in {"open", "listening"}
    /\ IF ok /\ client # NULL
       THEN /\ cstat' = [cstat EXCEPT ![disc.cl] = "open", ![client] = "ended"]
            /\ disc' = [disc EXCEPT !.pc = "end", !.cl = client]
            /\ UNCHANGED <<client, connected>>
       ELSE DisconnectCatch(cstat)
    /\ UNCHANGED <<connectionAttempts, reconnectTimeout, retryTimers, conns, lhist>>

\* `await client.end()` settles.
DisconnectEnded(ok) ==
    /\ UNCHANGED notListener
    /\ disc.pc = "end"
    /\ IF ok
       THEN /\ connected' = FALSE
            /\ client' = NULL
            /\ disc' = Settled(disc, IdleDisc, TRUE)
            /\ UNCHANGED cstat
       ELSE DisconnectCatch(cstat)
    /\ UNCHANGED <<connectionAttempts, reconnectTimeout, retryTimers, conns, lhist>>

CallDisconnect == Disconnect(FALSE) /\ UNCHANGED notListener

\* The channel the adapter has the listener subscribe to, and another one.
Channel == "db_change_notifications"
Messages ==
    {[channel |-> Channel, payload |-> ""], [channel |-> Channel, payload |-> "p"],
     [channel |-> Channel, payload |-> "q"], [channel |-> "other", payload |-> "p"]}

\* The handler, had it not looked at the channel.
NotificationAnyChannel(c, ch, payload) ==
    /\ cstat[c] = "listening"
    /\ Len(yielded) < MaxNotifications
    /\ yielded' = Append(yielded, [channel |-> ch, payload |-> payload])
    /\ passed' = IF payload # "" THEN Append(passed, payload) ELSE passed
    /\ UNCHANGED <<lvars, lhist, alisten, avars, dbvars, ahist, nvars, nhist, side>>

\* A subscribed connection emits 'notification': the handler set in connect().
Notification(c, ch, payload) ==
    /\ cstat[c] = "listening"
    /\ Len(yielded) < MaxNotifications
    /\ yielded' = Append(yielded, [channel |-> ch, payload |-> payload])
    /\ passed' = IF ch = Channel /\ payload # "" THEN Append(passed, payload) ELSE passed
    /\ UNCHANGED <<lvars, lhist, alisten, avars, dbvars, ahist, nvars, nhist, side>>

NextListener ==
    \/ CallConnect
    \/ TimerFire
    \/ \E s \in Slots, ok \in BOOLEAN : ConnectOpened(s, ok)
    \/ \E s \in Slots, ok \in BOOLEAN : ConnectListened(s, ok)
    \/ \E s \in Slots : ConnectEnded(s)
    \/ \E c \in Clients : ErrorEvent(c)
    \/ CallDisconnect
    \/ \E ok \in BOOLEAN : DisconnectUnlistened(ok)
    \/ \E ok \in BOOLEAN : DisconnectEnded(ok)


(***************************************************************************)
(* PostgreSQL adapter: trigger setup and teardown.                         *)
(***************************************************************************)
NoTx == <<"none">>

\* information_schema.tables: the base tables, <<schema, name>>.
Catalog == {<<"public", "a">>, <<"public", "b">>, <<"audit", "a">>}

\* A TableFilter; {} stands for an absent list.
Filters ==
    [schemas : {{}, {"public", "audit"}}, include : {{}, {"a"}}, exclude : {{}, {"b"}}]

\* The rows getTableList's query selects when the query is well formed:
\* the WHERE clause built up to the include filter.
SelectedTables(f) ==
    LET schemas == IF f.schemas = {} THEN {"public"} ELSE f.schemas
    IN  {t \in Catalog : t[1] \in schemas /\ (f.include = {} \/ t[2] \in f.include)}

\* The exclude clause is built as `!= ALL(${params.length + 1}::text[])`: an
\* integer literal cast to text[], which the server rejects.
QueryWellFormed(f) == f.exclude = {}

\* The rows of a result set, in the order the server returns them.
CatalogOrder == <<(<<"audit", "a">>), (<<"public", "a">>), (<<"public", "b">>)>>
RowsOf(S) == LET In(t) == t \in S IN SelectSeq(CatalogOrder, In)

\* `this.config.tables || {}`: no filter.
PlainFilter == [schemas |-> {}, include |-> {}, exclude |-> {}]

IdleCall ==
    [pc |-> "idle", result |-> "none", tables |-> <<>>, idx |-> 0, filter |-> PlainFilter, fault |-> FALSE]

\* The triggers that exist before the adapter is constructed: none, or one of
\* the same name left on audit.a by an earlier run.
Leftovers == {{}, {<<"audit", "a">>}}

InitAdapter(existing) ==
    /\ isListening = FALSE
    /\ hasListener = FALSE
    /\ handlerRegistered = FALSE
    /\ initialized = FALSE
    /\ triggers = <<>>
    /\ setupCall = IdleCall
    /\ teardownCall = IdleCall
    /\ dbTriggers \in existing
    /\ tx = NoTx
    /\ dbBefore = dbTriggers
    /\ statements = 0

NoCallInFlight == setupCall.pc = "idle" /\ teardownCall.pc = "idle"

\* setupChangeNotifications without its `if (this.initialized) return`.
SetupChangeNotificationsAlways(f) ==
    /\ NoCallInFlight
    /\ Len(triggers) < MaxRecords
    /\ dbBefore' = dbTriggers
    /\ statements' = 0
    /\ setupCall' = [IdleCall EXCEPT !.pc = "acquire", !.tables = RowsOf(SelectedTables(f)), !.filter = f]
    /\ UNCHANGED <<initialized, triggers, teardownCall, dbvars>>

\* setupChangeNotifications(filter), up to `await this.pool.connect()`.
SetupChangeNotifications(f) ==
    /\ NoCallInFlight
    /\ Len(triggers) < MaxRecords
    /\ dbBefore' = dbTriggers
    /\ statements' = 0
    /\ IF initialized
       THEN setupCall' = [IdleCall EXCEPT !.result = "ok", !.filter = f]
       ELSE setupCall' = [IdleCall EXCEPT !.pc = "acquire", !.tables = RowsOf(SelectedTables(f)),
                                          !.filter = f]
    /\ UNCHANGED <<initialized, triggers, teardownCall, dbvars>>

\* A statement has failed for a reason of the server or the network, not of
\* the statement.
Faulted(call) == [call EXCEPT !.fault = TRUE]

\* The catch block of setup and teardown, up to `await client.query('ROLLBACK')`.
Rollback(call) == [call EXCEPT !.pc = "rollback"]

\* `await this.pool.connect()` settles; outside the try block.
SetupAcquired(ok) ==
    /\ UNCHANGED notAdapter
    /\ setupCall.pc = "acquire"
    /\ setupCall' = IF ok THEN [setupCall EXCEPT !.pc = "begin"]
                          ELSE [setupCall EXCEPT !.pc = "idle", !.result = "failed", !.fault = TRUE]
    /\ statements' = IF ok THEN statements + 1 ELSE statements
    /\ UNCHANGED <<initialized, triggers, teardownCall, dbvars, dbBefore>>

\* `await client.query('BEGIN')` settles.
SetupBegun(ok) ==
    /\ UNCHANGED notAdapter
    /\ setupCall.pc = "begin"
    /\ setupCall' = IF ok THEN [setupCall EXCEPT !.pc = "function"] ELSE Rollback(Faulted(setupCall))
    /\ tx' = IF ok THEN dbTriggers ELSE tx
    /\ statements' = statements + 1
    /\ UNCHANGED <<initialized, triggers, teardownCall, dbTriggers, dbBefore>>

\* `await client.query(CREATE OR REPLACE FUNCTION ...)` settles.
SetupFunctionCreated(ok) ==
    /\ UNCHANGED notAdapter
    /\ setupCall.pc = "function"
    /\ setupCall' = IF ok THEN [setupCall EXCEPT !.pc = "catalog"] ELSE Rollback(Faulted(setupCall))
    /\ statements' = statements + 1
    /\ UNCHANGED <<initialized, triggers, teardownCall, dbvars, dbBefore>>

\* After a step of the trigger loop: the next trigger statement, or COMMIT.
NextTrigger(call, i) ==
    IF i > Len(call.tables) THEN [call EXCEPT !.pc = "commit", !.idx = i]
                            ELSE [call EXCEPT !.pc = "trigger", !.idx = i]

\* `await this.getTableList(client, tableFilter)` settles.
SetupCatalogRead(ok) ==
    /\ UNCHANGED notAdapter
    /\ setupCall.pc = "catalog"
    /\ setupCall' = IF ~ok THEN Rollback(Faulted(setupCall))
                    ELSE IF QueryWellFormed(setupCall.filter) THEN NextTrigger(setupCall, 1)
                    ELSE Rollback(setupCall)
    /\ statements' = statements + 1
    /\ UNCHANGED <<initialized, triggers, teardownCall, dbvars, dbBefore>>

\* `await client.query(triggerSQL)` settles; then `this.triggers.push(...)`.
SetupTriggerCreated(ok) ==
    /\ UNCHANGED notAdapter
    /\ setupCall.pc = "trigger"
    /\ LET t == setupCall.tables[setupCall.idx]
       IN  IF ok
           THEN /\ tx' = tx \cup {t}
                /\ triggers' = Append(triggers, t)
                /\ setupCall' = NextTrigger(setupCall, setupCall.idx + 1)
                /\ statements' = statements + 1
           ELSE /\ setupCall' = Rollback(Faulted(setupCall))
                /\ statements' = statements + 1
                /\ UNCHANGED <<tx, triggers>>
    /\ UNCHANGED <<initialized, teardownCall, dbTriggers, dbBefore>>

\* `await client.query('COMMIT')` settles; then `this.initialized = true`.
SetupCommitted(ok) ==
    /\ UNCHANGED notAdapter
    /\ setupCall.pc = "commit"
    /\ statements' = statements + 1
    /\ IF ok
       THEN /\ dbTriggers' = tx
            /\ tx' = NoTx
            /\ initialized' = TRUE
            /\ setupCall' = [setupCall EXCEPT !.pc = "idle", !.result = "ok"]
       ELSE /\ setupCall' = Rollback(Faulted(setupCall))
            /\ UNCHANGED <<dbTriggers, tx, initialized>>
    /\ UNCHANGED <<triggers, teardownCall, dbBefore>>

\* A rollback that keeps what the transaction did.
SetupRolledBackKeeping ==
    /\ UNCHANGED notAdapter
    /\ setupCall.pc = "rollback"
    /\ tx' = NoTx
    /\ dbTriggers' = dbTriggers \cup {triggers[i] : i \in 1..Len(triggers)}
    /\ statements' = statements + 1
    /\ setupCall' = [setupCall EXCEPT !.pc = "idle", !.result = "failed"]
    /\ UNCHANGED <<initialized, triggers, teardownCall, dbBefore>>

\* `await client.query('ROLLBACK')` settles; the error is thrown.
SetupRolledBack ==
    /\ UNCHANGED notAdapter
    /\ setupCall.pc = "rollback"
    /\ tx' = NoTx
    /\ statements' = statements + 1
    /\ setupCall' = [setupCall EXCEPT !.pc = "idle", !.result = "failed"]
    /\ UNCHANGED <<initialized, triggers, teardownCall, dbTriggers, dbBefore>>

\* After a step of the drop loop: the next DROP TRIGGER, or COMMIT.
NextDrop(call, i) ==
    IF i > Len(triggers) THEN [call EXCEPT !.pc = "commit", !.idx = i]
                         ELSE [call EXCEPT !.pc = "drop", !.idx = i]

\* teardownChangeNotifications(), up to `await this.pool.connect()`.
TeardownChangeNotifications ==
    /\ NoCallInFlight
    /\ dbBefore' = dbTriggers
    /\ statements' = 0
    /\ IF ~initialized
       THEN teardownCall' = [IdleCall EXCEPT !.result = "ok"]
       ELSE teardownCall' = [IdleCall EXCEPT !.pc = "acquire"]
    /\ UNCHANGED <<initialized, triggers, setupCall, dbvars>>

TeardownAcquired(ok) ==
    /\ UNCHANGED notAdapter
    /\ teardownCall.pc = "acquire"
    /\ teardownCall' = IF ok THEN [teardownCall EXCEPT !.pc = "begin"]
                             ELSE [teardownCall EXCEPT !.pc = "idle", !.result = "failed", !.fault = TRUE]
    /\ statements' = IF ok THEN statements + 1 ELSE statements
    /\ UNCHANGED <<initialized, triggers, setupCall, dbvars, dbBefore>>

TeardownBegun(ok) ==
    /\ UNCHANGED notAdapter
    /\ teardownCall.pc = "begin"
    /\ teardownCall' = IF ok THEN NextDrop(teardownCall, 1) ELSE Rollback(Faulted(teardownCall))
    /\ tx' = IF ok THEN dbTriggers ELSE tx
    /\ statements' = statements + 1
    /\ UNCHANGED <<initialized, triggers, setupCall, dbTriggers, dbBefore>>

\* `await client.query(DROP TRIGGER IF EXISTS ...)` settles.
TeardownDropped(ok) ==
    /\ UNCHANGED notAdapter
    /\ teardownCall.pc = "drop"
    /\ teardownCall' = IF ok THEN NextDrop(teardownCall, teardownCall.idx + 1)
                             ELSE Rollback(Faulted(teardownCall))
    /\ tx' = IF ok THEN tx \ {triggers[teardownCall.idx]} ELSE tx
    /\ statements' = statements + 1
    /\ UNCHANGED <<initialized, triggers, setupCall, dbTriggers, dbBefore>>

\* teardown, had it kept its records after COMMIT.
TeardownCommittedKeeping(ok) ==
    /\ UNCHANGED notAdapter
    /\ teardownCall.pc = "commit"
    /\ statements' = statements + 1
    /\ IF ok
       THEN /\ dbTriggers' = tx
            /\ tx' = NoTx
            /\ initialized' = FALSE
            /\ teardownCall' = [teardownCall EXCEPT !.pc = "idle", !.result = "ok"]
            /\ UNCHANGED triggers
       ELSE /\ teardownCall' = Rollback(Faulted(teardownCall))
            /\ UNCHANGED <<dbTriggers, tx, initialized, triggers>>
    /\ UNCHANGED <<setupCall, dbBefore>>

\* `await client.query('COMMIT')` settles; then the records are cleared.
TeardownCommitted(ok) ==
    /\ UNCHANGED notAdapter
    /\ teardownCall.pc = "commit"
    /\ statements' = statements + 1
    /\ IF ok
       THEN /\ dbTriggers' = tx
            /\ tx' = NoTx
            /\ initialized' = FALSE
            /\ triggers' = <<>>
            /\ teardownCall' = [teardownCall EXCEPT !.pc = "idle", !.result = "ok"]
       ELSE /\ teardownCall' = Rollback(Faulted(teardownCall))
            /\ UNCHANGED <<dbTriggers, tx, initialized, triggers>>
    /\ UNCHANGED <<setupCall, dbBefore>>

TeardownRolledBack ==
    /\ UNCHANGED notAdapter
    /\ teardownCall.pc = "rollback"
    /\ tx' = NoTx
    /\ statements' = statements + 1
    /\ teardownCall' = [teardownCall EXCEPT !.pc = "idle", !.result = "failed"]
    /\ UNCHANGED <<initialized, triggers, setupCall, dbTriggers, dbBefore>>

CallSetup(f) == SetupChangeNotifications(f) /\ UNCHANGED notAdapter
CallTeardown == TeardownChangeNotifications /\ UNCHANGED notAdapter

NextAdapter ==
    \/ \E f \in Filters : CallSetup(f)
    \/ \E ok \in BOOLEAN : SetupAcquired(ok)
    \/ \E ok \in BOOLEAN : SetupBegun(ok)
    \/ \E ok \in BOOLEAN : SetupFunctionCreated(ok)
    \/ \E ok \in BOOLEAN : SetupCatalogRead(ok)
    \/ \E ok \in BOOLEAN : SetupTriggerCreated(ok)
    \/ \E ok \in BOOLEAN : SetupCommitted(ok)
    \/ SetupRolledBack
    \/ CallTeardown
    \/ \E ok \in BOOLEAN : TeardownAcquired(ok)
    \/ \E ok \in BOOLEAN : TeardownBegun(ok)
    \/ \E ok \in BOOLEAN : TeardownDropped(ok)
    \/ \E ok \in BOOLEAN : TeardownCommitted(ok)
    \/ TeardownRolledBack

(***************************************************************************)
(* Orchestrator (ChangeNotifier) and its sinks.                            *)
(***************************************************************************)
MaxEvents == 2
MaxBatchSize == 2

SinkIds == 1..2
TransformIds == 1..3

\* Table names are character sequences; operations are OperationType values.
Users == <<"u">>
Orders == <<"o">>
Tables == {Users, Orders}
Ops == {"insert", "update"}

NoEvent == [id |-> 0, table |-> <<>>, op |-> "none", applied |-> <<>>]

\* The transformations of a configuration: {tablePattern, transform}; `global`
\* tells a precompiled RegExp carrying the g flag from a string pattern.
Entry(p, g, fn) == [pattern |-> p, global |-> g, fn |-> fn]
TransformationLists ==
    { <<>>,
      <<Entry(Users, FALSE, "first"), Entry(Users, FALSE, "second")>>,
      <<Entry(Users, FALSE, "first"), Entry(Users, FALSE, "drop"), Entry(Users, FALSE, "second")>>,
      <<Entry(Users, TRUE, "first")>> }

SupportedMethods == {"sse", "custom"}

Configs(deliveries, transformations) ==
    [batchingEnabled : BOOLEAN, batchSize : 1..MaxBatchSize, delivery : deliveries,
     transformations : transformations, tables : {PlainFilter}]

\* The user's transform functions: one that drops, others that mark the event.
Transform(fn, e) == IF fn = "drop" THEN NoEvent ELSE [e EXCEPT !.applied = Append(@, fn)]

\* RegExp.prototype.test: a search from index 0, or from lastIndex for a
\* global pattern, which then remembers where the match ended.
RegExpTest(pattern, global, table, li) ==
    LET from == IF global THEN li ELSE 0
        at == {k \in from..(Len(table) - Len(pattern)) :
                  SubSeq(table, k + 1, k + Len(pattern)) = pattern}
        first == CHOOSE k \in at : \A j \in at : k <= j
    IN  IF at = {} THEN [matched |-> FALSE, li |-> IF global THEN 0 ELSE li]
        ELSE [matched |-> TRUE, li |-> IF global THEN first + Len(pattern) ELSE li]

RECURSIVE ApplyFrom(_, _, _, _)
\* The loop of applyTransformations from entry i on: e0 the incoming event,
\* cur the current value, li the lastIndex of every pattern.
ApplyFrom(i, e0, cur, li) ==
    IF i > Len(cfg.transformations) THEN [ev |-> cur, li |-> li]
    ELSE LET t == cfg.transformations[i]
             r == RegExpTest(t.pattern, t.global, e0.table, li[i])
             li1 == [li EXCEPT ![i] = r.li]
         IN  IF r.matched
             THEN IF Transform(t.fn, cur) = NoEvent
                  THEN [ev |-> NoEvent, li |-> li1]
                  ELSE ApplyFrom(i + 1, e0, Transform(t.fn, cur), li1)
             ELSE ApplyFrom(i + 1, e0, cur, li1)

ApplyTransformations(e, li) == ApplyFrom(1, e, e, li)

InitStats ==
    [eventsProcessed |-> 0,
     eventsByOperation |-> [o \in Ops |-> 0],
     eventsByTable |-> [t \in Tables |-> 0],
     deliveryAttempts |-> 0, deliverySuccesses |-> 0, deliveryFailures |-> 0]

\* updateEventStats without the per-table count.
UpdateEventStatsNoTable(st, e) ==
    [st EXCEPT !.eventsProcessed = @ + 1,
               !.eventsByOperation[e.op] = @ + 1]

UpdateEventStats(st, e) ==
    [st EXCEPT !.eventsProcessed = @ + 1,
               !.eventsByOperation[e.op] = @ + 1,
               !.eventsByTable[e.table] = @ + 1]

\* The counters, had a success been counted once per sink.
CountDeliveryPerSink(st, ok) ==
    [st EXCEPT !.deliveryAttempts = @ + 1,
               !.deliverySuccesses = IF ok THEN @ + Len(deliveryMechanisms) ELSE @,
               !.deliveryFailures = IF ok THEN @ ELSE @ + 1]

\* The counters after a fan-out call has resolved (ok) or rejected.
CountDelivery(st, ok) ==
    [st EXCEPT !.deliveryAttempts = @ + 1,
               !.deliverySuccesses = IF ok THEN @ + 1 ELSE @,
               !.deliveryFailures = IF ok THEN @ ELSE @ + 1]

IdleInvocation == [pc |-> "idle", result |-> "none"]
IdleCleanup == [pc |-> "idle", caller |-> "none", waitFor |-> 0]

InitNotifier(configs) ==
    /\ cfg \in configs
    /\ adapterSet = FALSE
    /\ deliveryMechanisms = <<>>
    /\ sinkInit = [i \in SinkIds |-> FALSE]
    /\ isRunning = FALSE
    /\ stats = InitStats
    /\ eventBuffer = <<>>
    /\ batchTimeout = FALSE
    /\ batchTimers = 0
    /\ lastIndex = [i \in TransformIds |-> 0]
    /\ calls = <<>>
    /\ initCall = IdleInvocation
    /\ stopCall = IdleInvocation
    /\ cleanupCall = IdleCleanup
    /\ nextId = 1
    /\ survivors = <<>>
    /\ sinkCalls = [i \in SinkIds |-> <<>>]
    /\ cleanupLog = <<>>

Range(q) == {q[i] : i \in 1..Len(q)}

\* BaseDelivery.deliver up to its first suspension: not initialized, it
\* throws; the streaming sink writes and is done; the custom sink awaits the
\* handler it has called with the first event.
FirstResult(i) ==
    IF ~sinkInit[i] THEN "failed"
    ELSE IF cfg.delivery[i] = "sse" THEN "ok" ELSE "pending"

\* Promise.any over the sinks' deliver() promises, in the place of Promise.all.
PromiseAny(res) ==
    IF \E i \in SinkIds : res[i] = "ok" THEN "ok"
    ELSE IF \A i \in SinkIds : res[i] \in {"failed", "none"} THEN "failed" ELSE "pending"

\* Promise.all over the sinks' deliver() promises.
PromiseAll(res) ==
    IF \E i \in SinkIds : res[i] = "failed" THEN "failed"
    ELSE IF \A i \in SinkIds : res[i] \in {"ok", "none"} THEN "ok" ELSE "pending"

\* deliverEvent and deliverBatch, had they no catch block around Promise.all.
ReturnedUncaught(outcome) ==
    IF outcome = "pending" THEN "pending"
    ELSE IF outcome = "failed" THEN "rejected" ELSE "resolved"

\* How deliverEvent and deliverBatch settle once Promise.all has: the try
\* block and the catch block both run to their end.
Returned(outcome) == IF outcome = "pending" THEN "pending" ELSE "resolved"

NewCall(payload, batch) ==
    LET res == [i \in SinkIds |-> IF i \in Range(deliveryMechanisms) THEN FirstResult(i) ELSE "none"]
    IN  [payload |-> payload, batch |-> batch, res |-> res,
         pos |-> [i \in SinkIds |-> IF res[i] = "pending" THEN 1 ELSE 0],
         outcome |-> PromiseAll(res), returned |-> Returned(PromiseAll(res))]

\* The fan-out of deliverEvent and deliverBatch: deliver() is called on every
\* registered sink; the counters move once Promise.all has settled.
FanOut(payload, batch, st) ==
    LET c == NewCall(payload, batch)
    IN  /\ calls' = Append(calls, c)
        /\ stats' = IF c.outcome = "pending" THEN st ELSE CountDelivery(st, c.outcome = "ok")
        /\ sinkCalls' = [i \in SinkIds |-> IF c.res[i] # "none" THEN Append(sinkCalls[i], payload)
                                                              ELSE sinkCalls[i]]

\* deliverBatch() up to its await, on buffer buf.
DeliverBatch(buf, st) ==
    /\ batchTimeout' = FALSE
    /\ batchTimers' = IF batchTimeout THEN batchTimers - 1 ELSE batchTimers
    /\ IF buf = <<>>
       THEN /\ eventBuffer' = buf
            /\ stats' = st
            /\ UNCHANGED <<calls, sinkCalls>>
       ELSE /\ eventBuffer' = <<>>
            /\ FanOut(buf, TRUE, st)

BatchSize == IF cfg.batchSize = 0 THEN 100 ELSE cfg.batchSize

\* The end of bufferEvent: a timer is set unless one is held.
ArmBatchTimer ==
    /\ batchTimeout' = TRUE
    /\ batchTimers' = IF batchTimeout THEN batchTimers ELSE batchTimers + 1

\* bufferEvent, had it flushed only above the batch size.
BufferEventLate(ev, st) ==
    LET buf == Append(eventBuffer, ev)
    IN  IF Len(buf) > BatchSize
        THEN DeliverBatch(buf, st)
        ELSE /\ eventBuffer' = buf
             /\ ArmBatchTimer
             /\ stats' = st
             /\ UNCHANGED <<calls, sinkCalls>>

BufferEvent(ev, st) ==
    LET buf == Append(eventBuffer, ev)
    IN  IF Len(buf) >= BatchSize
        THEN DeliverBatch(buf, st)
        ELSE /\ eventBuffer' = buf
             /\ ArmBatchTimer
             /\ stats' = st
             /\ UNCHANGED <<calls, sinkCalls>>

\* deliverEvent, had it called the first sink only.
DeliverEventFirstSink(ev, st) ==
    /\ calls' = Append(calls, NewCall(<<ev>>, FALSE))
    /\ stats' = IF NewCall(<<ev>>, FALSE).outcome = "pending" THEN st
                ELSE CountDelivery(st, NewCall(<<ev>>, FALSE).outcome = "ok")
    /\ sinkCalls' = [sinkCalls EXCEPT ![1] = Append(@, <<ev>>)]
    /\ UNCHANGED <<eventBuffer, batchTimeout, batchTimers>>

DeliverEvent(ev, st) ==
    /\ FanOut(<<ev>>, FALSE, st)
    /\ UNCHANGED <<eventBuffer, batchTimeout, batchTimers>>

\* A notification reaches a subscribed connection and the adapter hands the
\* event to processEvent.
CanNotify == handlerRegistered /\ \E c \in Clients : cstat[c] = "listening"

\* processEvent(event), up to its first await, for the first `limit` events.
ProcessEventWithin(limit, table, op) ==
    /\ nextId <= limit
    /\ LET e == [id |-> nextId, table |-> table, op |-> op, applied |-> <<>>]
           st == UpdateEventStats(stats, e)
           tr == ApplyTransformations(e, lastIndex)
       IN  /\ nextId' = nextId + 1
           /\ lastIndex' = tr.li
           /\ IF tr.ev = NoEvent
              THEN /\ stats' = st
                   /\ UNCHANGED <<eventBuffer, batchTimeout, batchTimers, calls, survivors, sinkCalls>>
              ELSE /\ survivors' = Append(survivors, tr.ev)
                   /\ IF cfg.batchingEnabled THEN BufferEvent(tr.ev, st) ELSE DeliverEvent(tr.ev, st)
    /\ UNCHANGED <<lvars, lhist, alisten, avars, dbvars, ahist>>
    /\ UNCHANGED <<side, cfg, adapterSet, deliveryMechanisms, sinkInit, isRunning, initCall, stopCall,
                   cleanupCall, cleanupLog>>

ProcessEventOf(table, op) == ProcessEventWithin(MaxEvents, table, op)

\* A change of a row of table, relayed to the orchestrator.
ProcessEvent(table, op) ==
    /\ CanNotify
    /\ ProcessEventOf(table, op)
    /\ UNCHANGED subhist

\* Payloads on the wire: text that is not JSON, the JSON null, an object
\* without an operation, and two payloads of the trigger function.
Wire == {"{", "null", "{table:u}", "{operation:INSERT,table:u}", "{operation:update,table:o}"}

\* JSON.parse, on the payloads of Wire.
JSONParse(p) ==
    CASE p = "{" -> [error |-> TRUE, object |-> FALSE, operation |-> "undefined", table |-> <<>>]
      [] p = "null" -> [error |-> FALSE, object |-> FALSE, operation |-> "undefined", table |-> <<>>]
      [] p = "{table:u}" -> [error |-> FALSE, object |-> TRUE, operation |-> "undefined", table |-> Users]
      [] p = "{operation:INSERT,table:u}" ->
             [error |-> FALSE, object |-> TRUE, operation |-> "INSERT", table |-> Users]
      [] p = "{operation:update,table:o}" ->
             [error |-> FALSE, object |-> TRUE, operation |-> "update", table |-> Orders]

\* mapOperationType: the keyword in lower case.
MapOperationType(keyword) ==
    CASE keyword \in {"INSERT", "insert"} -> "insert"
      [] keyword \in {"UPDATE", "update"} -> "update"
      [] OTHER -> "unknown"

\* What makes the try block of handleNotification throw: JSON.parse on text
\* that is not JSON, `data.id` on null, `toLowerCase` of no operation.
Throws(p) ==
    LET data == JSONParse(p)
    IN  data.error \/ ~data.object \/ data.operation = "undefined"

\* handleNotification, had it emitted an event for every payload.
HandleNotificationAlways(p) ==
    /\ \E c \in Clients : cstat[c] = "listening"
    /\ Len(passed) < MaxNotifications
    /\ yielded' = Append(yielded, [channel |-> Channel, payload |-> p])
    /\ passed' = Append(passed, p)
    /\ IF handlerRegistered
       THEN ProcessEventOf(Users, "insert")
       ELSE UNCHANGED <<lvars, lhist, alisten, avars, dbvars, ahist, nvars, nhist, side>>

\* A notification on the adapter's channel: the listener passes its payload
\* to handleNotification, which parses it and emits the change event to the
\* registered handler, or logs what the try block threw.
HandleNotification(p) ==
    /\ \E c \in Clients : cstat[c] = "listening"
    /\ Len(passed) < MaxNotifications
    /\ yielded' = Append(yielded, [channel |-> Channel, payload |-> p])
    /\ passed' = Append(passed, p)
    /\ IF ~Throws(p) /\ handlerRegistered
       THEN ProcessEventOf(JSONParse(p).table, MapOperationType(JSONParse(p).operation))
       ELSE UNCHANGED <<lvars, lhist, alisten, avars, dbvars, ahist, nvars, nhist, side>>

\* onChangeEvent(h) of the orchestrator: `this.changeEventHandler = handler`.
\* Nothing reads the field: registerEventHandlers hands
\* `this.processEvent.bind(this)` to the adapter, which HandleNotification
\* therefore calls.
OnChangeEvent ==
    /\ changeEventHandler' = "h"
    /\ UNCHANGED <<notSide, evars, snapshot, svars, emitter, notified, adapterCall>>

\* The batch timer fires.
BatchTimerFired ==
    /\ batchTimeout
    /\ DeliverBatch(eventBuffer, stats)
    /\ UNCHANGED <<lvars, lhist, alisten, avars, dbvars, ahist>>
    /\ UNCHANGED <<side, subhist, cfg, adapterSet, deliveryMechanisms, sinkInit, isRunning, lastIndex, initCall,
                   stopCall, cleanupCall, nextId, survivors, cleanupLog>>

\* The handler settles, had CustomDelivery.deliverEvent gone on to the next
\* event of the batch after a failure.
HandlerSettledContinuing(k, i, ok) ==
    /\ k \in 1..Len(calls)
    /\ calls[k].res[i] = "pending"
    /\ LET c == calls[k]
           more == c.pos[i] < Len(c.payload)
           res == IF ok /\ more THEN c.res ELSE [c.res EXCEPT ![i] = IF ok THEN "ok" ELSE "failed"]
           outcome == IF c.outcome = "pending" THEN PromiseAll(res) ELSE c.outcome
       IN  /\ calls' = [calls EXCEPT ![k] = [c EXCEPT !.res = res,
                                                      !.pos[i] = IF more THEN @ + 1 ELSE @,
                                                      !.outcome = outcome,
                                                      !.returned = Returned(outcome)]]
           /\ stats' = IF c.outcome = "pending" /\ outcome # "pending"
                       THEN CountDelivery(stats, outcome = "ok") ELSE stats
    /\ UNCHANGED <<lvars, lhist, alisten, avars, dbvars, ahist>>
    /\ UNCHANGED <<side, subhist, cfg, adapterSet, deliveryMechanisms, sinkInit, isRunning, eventBuffer, batchTimeout, batchTimers,
                   lastIndex, initCall, stopCall, cleanupCall, nextId, nhist>>

\* The handler of custom sink i settles for the event of call k it was
\* called with: CustomDelivery.deliverEvent goes on to the next event of the
\* batch, or deliver() settles, and with it maybe Promise.all.
HandlerSettled(k, i, ok) ==
    /\ k \in 1..Len(calls)
    /\ calls[k].res[i] = "pending"
    /\ LET c == calls[k]
           more == ok /\ c.pos[i] < Len(c.payload)
           res == IF more THEN c.res ELSE [c.res EXCEPT ![i] = IF ok THEN "ok" ELSE "failed"]
           outcome == IF c.outcome = "pending" THEN PromiseAll(res) ELSE c.outcome
       IN  /\ calls' = [calls EXCEPT ![k] = [c EXCEPT !.res = res,
                                                      !.pos[i] = IF more THEN @ + 1 ELSE @,
                                                      !.outcome = outcome,
                                                      !.returned = Returned(outcome)]]
           /\ stats' = IF c.outcome = "pending" /\ outcome # "pending"
                       THEN CountDelivery(stats, outcome = "ok") ELSE stats
    /\ UNCHANGED <<lvars, lhist, alisten, avars, dbvars, ahist>>
    /\ UNCHANGED <<side, subhist, cfg, adapterSet, deliveryMechanisms, sinkInit, isRunning, eventBuffer, batchTimeout, batchTimers,
                   lastIndex, initCall, stopCall, cleanupCall, nextId, nhist>>

(***************************************************************************)
(* Orchestrator lifecycle: initialize(), stop(), cleanup().                *)
(***************************************************************************)
pipeline == <<stats, eventBuffer, batchTimeout, batchTimers, lastIndex, calls, nextId, survivors, sinkCalls>>

\* initialize(), up to `await adapter.testConnection()`.
CallInitialize ==
    /\ initCall = IdleInvocation
    /\ stopCall = IdleInvocation
    /\ initCall' = [pc |-> "test", result |-> "none"]
    /\ UNCHANGED <<lvars, lhist, alisten, avars, dbvars, ahist, pipeline>>
    /\ UNCHANGED <<side, subhist, cfg, adapterSet, deliveryMechanisms, sinkInit, isRunning, stopCall, cleanupCall, cleanupLog>>

\* initialize() on a running orchestrator: nothing in initialize() looks at
\* isRunning; createAdapter() builds another adapter and awaits its
\* connection test.
CallInitializeRunning ==
    /\ isRunning
    /\ initCall.pc = "idle"
    /\ stopCall = IdleInvocation
    /\ cleanupCall.pc = "idle"
    /\ initCall' = [pc |-> "test", result |-> "none"]
    /\ UNCHANGED <<lvars, lhist, alisten, avars, dbvars, ahist, pipeline>>
    /\ UNCHANGED <<side, subhist, cfg, adapterSet, deliveryMechanisms, sinkInit, isRunning, stopCall, cleanupCall, cleanupLog>>

\* The sinks registered, had createDeliveryMechanism returned a sink for
\* every method.
SinksCreatedWhatever == Len(cfg.delivery)

\* The sinks setupDeliveryMechanisms registers before createDeliveryMechanism
\* throws, if it does: these two sink kinds initialize without suspending.
SinksCreated ==
    LET n == Len(cfg.delivery)
        bad == {i \in 1..n : cfg.delivery[i] \notin SupportedMethods}
    IN  IF bad = {} THEN n ELSE (CHOOSE i \in bad : \A j \in bad : i <= j) - 1

\* testConnection() settles: the adapter is kept, the sinks are built, and
\* adapter.setupChangeNotifications runs up to its first await.
TestConnectionSettled(ok) ==
    /\ initCall.pc = "test"
    /\ IF ok
       THEN /\ adapterSet' = TRUE
            /\ deliveryMechanisms' = [i \in 1..SinksCreated |-> i]
            /\ sinkInit' = [i \in SinkIds |-> i <= SinksCreated]
            /\ IF SinksCreated = Len(cfg.delivery)
               THEN /\ SetupChangeNotifications(cfg.tables)
                    /\ initCall' = [initCall EXCEPT !.pc = "setup"]
               ELSE /\ initCall' = [initCall EXCEPT !.pc = "catch"]
                    /\ UNCHANGED <<avars, dbvars, ahist>>
       ELSE /\ initCall' = [initCall EXCEPT !.pc = "catch"]
            /\ UNCHANGED <<adapterSet, deliveryMechanisms, sinkInit, avars, dbvars, ahist>>
    /\ UNCHANGED <<lvars, lhist, alisten, pipeline>>
    /\ UNCHANGED <<side, subhist, cfg, isRunning, stopCall, cleanupCall, cleanupLog>>

\* setupChangeNotifications has settled: registerEventHandlers, then
\* adapter.start() up to the listener's first await.
SetupSettled ==
    /\ initCall.pc = "setup"
    /\ setupCall.pc = "idle"
    /\ IF setupCall.result = "ok"
       THEN /\ handlerRegistered' = TRUE
            /\ hasListener' = TRUE
            /\ ConnectStart(TRUE)
            /\ initCall' = [initCall EXCEPT !.pc = "start"]
            /\ UNCHANGED <<isListening, reconnectTimeout, retryTimers, stopped>>
       ELSE /\ initCall' = [initCall EXCEPT !.pc = "catch"]
            /\ UNCHANGED <<lvars, lhist, alisten>>
    /\ UNCHANGED <<avars, dbvars, ahist, pipeline>>
    /\ UNCHANGED <<side, subhist, cfg, adapterSet, deliveryMechanisms, sinkInit, isRunning, stopCall, cleanupCall, cleanupLog>>

AwaitedConn == CHOOSE s \in Slots : conns[s].awaited /\ HasSettled(conns[s])

\* adapter.start() has settled.
StartSettled ==
    /\ initCall.pc = "start"
    /\ \E s \in Slots : conns[s].awaited /\ HasSettled(conns[s])
    /\ conns' = [conns EXCEPT ![AwaitedConn] = IdleConn]
    /\ IF conns[AwaitedConn].pc = "resolved"
       THEN /\ isListening' = TRUE
            /\ isRunning' = TRUE
            /\ initCall' = [pc |-> "idle", result |-> "ok"]
       ELSE /\ initCall' = [initCall EXCEPT !.pc = "catch"]
            /\ UNCHANGED <<isListening, isRunning>>
    /\ UNCHANGED <<client, connected, connectionAttempts, reconnectTimeout, retryTimers, cstat, disc, lhist>>
    /\ UNCHANGED <<hasListener, handlerRegistered, avars, dbvars, ahist, pipeline>>
    /\ UNCHANGED <<side, subhist, cfg, adapterSet, deliveryMechanisms, sinkInit, stopCall, cleanupCall, cleanupLog>>

\* The catch block of initialize(): `await this.cleanup()`.
InitCatch ==
    /\ initCall.pc = "catch"
    /\ initCall' = [initCall EXCEPT !.pc = "cleanup"]
    /\ cleanupCall' = [pc |-> "begin", caller |-> "initialize", waitFor |-> 0]
    /\ cleanupLog' = <<>>
    /\ UNCHANGED <<lvars, lhist, alisten, avars, dbvars, ahist, pipeline>>
    /\ UNCHANGED <<side, subhist, cfg, adapterSet, deliveryMechanisms, sinkInit, isRunning, stopCall>>

\* stop(), up to the first await of cleanup().
CallStop ==
    /\ stopCall = IdleInvocation
    /\ cleanupCall.pc = "idle"
    /\ isRunning
    /\ stopCall' = [stopCall EXCEPT !.pc = "cleanup"]
    /\ cleanupCall' = [pc |-> "begin", caller |-> "stop", waitFor |-> 0]
    /\ cleanupLog' = <<>>
    /\ UNCHANGED <<lvars, lhist, alisten, avars, dbvars, ahist, pipeline>>
    /\ UNCHANGED <<side, subhist, cfg, adapterSet, deliveryMechanisms, sinkInit, isRunning, initCall>>

\* cleanup(): `if (this.eventBuffer.length > 0) await this.deliverBatch()`.
CleanupBegin ==
    /\ cleanupCall.pc = "begin"
    /\ IF eventBuffer # <<>>
       THEN /\ DeliverBatch(eventBuffer, stats)
            /\ cleanupCall' = [cleanupCall EXCEPT !.pc = "flush", !.waitFor = Len(calls) + 1]
            /\ cleanupLog' = Append(cleanupLog, <<"flush", 0>>)
       ELSE /\ cleanupCall' = [cleanupCall EXCEPT !.pc = "adapter"]
            /\ UNCHANGED <<stats, eventBuffer, batchTimeout, batchTimers, calls, sinkCalls, cleanupLog>>
    /\ UNCHANGED <<lvars, lhist, alisten, avars, dbvars, ahist>>
    /\ UNCHANGED <<side, subhist, cfg, adapterSet, deliveryMechanisms, sinkInit, isRunning, lastIndex, initCall,
                   stopCall, nextId, survivors>>

\* The flush of cleanup() has settled.
CleanupFlushed ==
    /\ cleanupCall.pc = "flush"
    /\ calls[cleanupCall.waitFor].outcome # "pending"
    /\ cleanupCall' = [cleanupCall EXCEPT !.pc = "adapter", !.waitFor = 0]
    /\ UNCHANGED <<lvars, lhist, alisten, avars, dbvars, ahist, pipeline>>
    /\ UNCHANGED <<side, subhist, cfg, adapterSet, deliveryMechanisms, sinkInit, isRunning, initCall, stopCall, cleanupLog>>

\* cleanup(): `if (this.adapter) { try { await this.adapter.stop()`; stop()
\* returns at once when the adapter is not listening.
CleanupAdapter ==
    /\ cleanupCall.pc = "adapter"
    /\ IF ~adapterSet
       THEN /\ cleanupCall' = [cleanupCall EXCEPT !.pc = "sinks"]
            /\ UNCHANGED <<lvars, lhist, alisten, cleanupLog>>
       ELSE /\ cleanupLog' = Append(cleanupLog, <<"stop", 0>>)
            /\ IF ~isListening
               THEN /\ cleanupCall' = [cleanupCall EXCEPT !.pc = "teardown"]
                    /\ UNCHANGED <<lvars, lhist, alisten>>
               ELSE IF hasListener
                    THEN /\ Disconnect(TRUE)
                         /\ cleanupCall' = [cleanupCall EXCEPT !.pc = "stop"]
                         /\ UNCHANGED <<connectionAttempts, conns, attemptsSince, failsSince, alisten>>
                    ELSE /\ isListening' = FALSE
                         /\ cleanupCall' = [cleanupCall EXCEPT !.pc = "teardown"]
                         /\ UNCHANGED <<lvars, lhist, hasListener, handlerRegistered>>
    /\ UNCHANGED <<avars, dbvars, ahist, pipeline>>
    /\ UNCHANGED <<side, subhist, cfg, adapterSet, deliveryMechanisms, sinkInit, isRunning, initCall, stopCall>>

\* adapter.stop() has settled, had cleanup() no try block around it: a
\* failure ends cleanup() and is raised to its caller.
CleanupStopSettledUncaught ==
    /\ cleanupCall.pc = "stop"
    /\ HasSettled(disc)
    /\ disc' = IdleDisc
    /\ IF disc.pc = "resolved"
       THEN /\ hasListener' = FALSE
            /\ isListening' = FALSE
            /\ cleanupCall' = [cleanupCall EXCEPT !.pc = "teardown"]
            /\ UNCHANGED <<initCall, stopCall>>
       ELSE /\ cleanupCall' = IdleCleanup
            /\ initCall' = IF cleanupCall.caller = "initialize"
                           THEN [pc |-> "idle", result |-> "failed"] ELSE initCall
            /\ stopCall' = IF cleanupCall.caller = "stop"
                           THEN [pc |-> "idle", result |-> "failed"] ELSE stopCall
            /\ UNCHANGED <<hasListener, isListening>>
    /\ UNCHANGED <<client, connected, connectionAttempts, reconnectTimeout, retryTimers, cstat, conns, lhist>>
    /\ UNCHANGED <<handlerRegistered, avars, dbvars, ahist, pipeline>>
    /\ UNCHANGED <<side, subhist, cfg, adapterSet, deliveryMechanisms, sinkInit, isRunning, cleanupLog>>

\* adapter.stop() has settled: on success teardown comes next; a failure is
\* caught by cleanup(), which goes on after its try block.
CleanupStopSettled ==
    /\ cleanupCall.pc = "stop"
    /\ HasSettled(disc)
    /\ disc' = IdleDisc
    /\ IF disc.pc = "resolved"
       THEN /\ hasListener' = FALSE
            /\ isListening' = FALSE
            /\ cleanupCall' = [cleanupCall EXCEPT !.pc = "teardown"]
            /\ UNCHANGED adapterSet
       ELSE /\ adapterSet' = FALSE
            /\ cleanupCall' = [cleanupCall EXCEPT !.pc = "sinks"]
            /\ UNCHANGED <<hasListener, isListening>>
    /\ UNCHANGED <<client, connected, connectionAttempts, reconnectTimeout, retryTimers, cstat, conns, lhist>>
    /\ UNCHANGED <<handlerRegistered, avars, dbvars, ahist, pipeline>>
    /\ UNCHANGED <<side, subhist, cfg, deliveryMechanisms, sinkInit, isRunning, initCall, stopCall, cleanupLog>>

\* cleanup(): `await this.adapter.teardownChangeNotifications()`.
CleanupTeardown ==
    /\ cleanupCall.pc = "teardown"
    /\ TeardownChangeNotifications
    /\ cleanupCall' = [cleanupCall EXCEPT !.pc = "teardownWait"]
    /\ cleanupLog' = Append(cleanupLog, <<"teardown", 0>>)
    /\ UNCHANGED <<lvars, lhist, alisten, pipeline>>
    /\ UNCHANGED <<side, subhist, cfg, adapterSet, deliveryMechanisms, sinkInit, isRunning, initCall, stopCall>>

\* The teardown has settled, either way: `this.adapter = null`.
CleanupTeardownSettled ==
    /\ cleanupCall.pc = "teardownWait"
    /\ teardownCall.pc = "idle"
    /\ adapterSet' = FALSE
    /\ cleanupCall' = [cleanupCall EXCEPT !.pc = "sinks"]
    /\ UNCHANGED <<lvars, lhist, alisten, avars, dbvars, ahist, pipeline>>
    /\ UNCHANGED <<side, subhist, cfg, deliveryMechanisms, sinkInit, isRunning, initCall, stopCall, cleanupLog>>

\* cleanup(): every registered sink is closed (close() of these two sink
\* kinds does not suspend), the list and the batch timer are cleared; then
\* the caller resumes: initialize() throws, stop() clears isRunning.
CleanupSinks ==
    /\ cleanupCall.pc = "sinks"
    /\ sinkInit' = [i \in SinkIds |-> sinkInit[i] /\ i \notin Range(deliveryMechanisms)]
    /\ cleanupLog' = cleanupLog \o [k \in 1..Len(deliveryMechanisms) |-> <<"close", deliveryMechanisms[k]>>]
    /\ deliveryMechanisms' = <<>>
    /\ batchTimeout' = FALSE
    /\ batchTimers' = IF batchTimeout THEN batchTimers - 1 ELSE batchTimers
    /\ cleanupCall' = IdleCleanup
    /\ IF cleanupCall.caller = "initialize"
       THEN /\ initCall' = [pc |-> "idle", result |-> "failed"]
            /\ UNCHANGED <<stopCall, isRunning>>
       ELSE /\ stopCall' = [pc |-> "idle", result |-> "ok"]
            /\ isRunning' = FALSE
            /\ UNCHANGED initCall
    /\ UNCHANGED <<lvars, lhist, alisten, avars, dbvars, ahist>>
    /\ UNCHANGED <<side, subhist, cfg, adapterSet, stats, eventBuffer, lastIndex, calls, nextId, survivors, sinkCalls>>

\* A function whose awaited call has settled resumes before any timer or
\* I/O event is handled.
Resuming ==
    \/ initCall.pc = "catch"
    \/ initCall.pc = "setup" /\ setupCall.pc = "idle"
    \/ initCall.pc = "start" /\ \E s \in Slots : conns[s].awaited /\ HasSettled(conns[s])
    \/ cleanupCall.pc \in {"begin", "adapter", "teardown", "sinks"}
    \/ cleanupCall.pc = "flush" /\ calls[cleanupCall.waitFor].outcome # "pending"
    \/ cleanupCall.pc = "stop" /\ HasSettled(disc)
    \/ cleanupCall.pc = "teardownWait" /\ teardownCall.pc = "idle"

Resume ==
    \/ SetupSettled
    \/ StartSettled
    \/ InitCatch
    \/ CleanupBegin
    \/ CleanupFlushed
    \/ CleanupAdapter
    \/ CleanupStopSettled
    \/ CleanupTeardown
    \/ CleanupTeardownSettled
    \/ CleanupSinks

(***************************************************************************)
(* The adapter's start() and stop(), called by a caller that awaits each.  *)
(***************************************************************************)
\* The listener holds something: a connection, an attempt or a disconnect in
\* flight, a retry timer.
ListenerLive ==
    \/ connected
    \/ client # NULL
    \/ retryTimers > 0
    \/ \E s \in Slots : conns[s].pc # "idle"
    \/ disc.pc # "idle"

\* createNotificationListener(...) and its connect(), up to
\* `await client.connect()`: a new closure, whose state replaces the one of
\* the listener the adapter referred to before.
NewListenerConnect ==
    /\ client' = 1
    /\ connected' = FALSE
    /\ connectionAttempts' = 1
    /\ reconnectTimeout' = NULL
    /\ retryTimers' = 0
    /\ cstat' = [c \in Clients |-> IF c = 1 THEN "connecting" ELSE "free"]
    /\ conns' = [s \in Slots |-> IF s = 1 THEN [pc |-> "connect", awaited |-> TRUE, cl |-> 1] ELSE IdleConn]
    /\ disc' = IdleDisc
    /\ stopped' = FALSE
    /\ attemptsSince' = 1
    /\ failsSince' = 0

\* start(), up to `await this.notificationListener.connect()`.
AdapterStart ==
    /\ adapterCall.pc = "idle"
    /\ IF isListening
       THEN /\ adapterCall' = [adapterCall EXCEPT !.op = "start", !.result = "resolved"]
            /\ UNCHANGED <<lvars, lhist, hasListener>>
       ELSE /\ hasListener' = TRUE
            /\ NewListenerConnect
            /\ adapterCall' = [op |-> "start", pc |-> "connect", result |-> "pending",
                               orphaned |-> adapterCall.orphaned \/ ListenerLive]
    /\ UNCHANGED <<isListening, handlerRegistered>>
    /\ UNCHANGED <<subhist, avars, dbvars, ahist, nvars, nhist, evars, snapshot, svars, emitter, notified, changeEventHandler>>

\* connect() has settled: start() sets isListening, or raises a DBChangeError.
AdapterStartSettled ==
    /\ adapterCall.pc = "connect"
    /\ \E s \in Slots : conns[s].awaited /\ HasSettled(conns[s])
    /\ conns' = [conns EXCEPT ![AwaitedConn] = IdleConn]
    /\ isListening' = (conns[AwaitedConn].pc = "resolved")
    /\ adapterCall' = [adapterCall EXCEPT !.pc = "idle",
                          !.result = IF conns[AwaitedConn].pc = "resolved" THEN "resolved" ELSE "rejected"]
    /\ UNCHANGED <<client, connected, connectionAttempts, reconnectTimeout, retryTimers, cstat, disc, lhist>>
    /\ UNCHANGED <<hasListener, handlerRegistered>>
    /\ UNCHANGED <<subhist, avars, dbvars, ahist, nvars, nhist, evars, snapshot, svars, emitter, notified, changeEventHandler>>

\* stop(), up to `await this.notificationListener.disconnect()`.
AdapterStop ==
    /\ adapterCall.pc = "idle"
    /\ IF ~isListening
       THEN /\ adapterCall' = [adapterCall EXCEPT !.op = "stop", !.result = "resolved"]
            /\ UNCHANGED <<lvars, lhist, alisten>>
       ELSE IF hasListener
            THEN /\ Disconnect(TRUE)
                 /\ adapterCall' = [adapterCall EXCEPT !.op = "stop", !.pc = "disconnect", !.result = "pending"]
                 /\ UNCHANGED <<connectionAttempts, conns, attemptsSince, failsSince, alisten>>
            ELSE /\ isListening' = FALSE
                 /\ adapterCall' = [adapterCall EXCEPT !.op = "stop", !.result = "resolved"]
                 /\ UNCHANGED <<lvars, lhist, hasListener, handlerRegistered>>
    /\ UNCHANGED <<subhist, avars, dbvars, ahist, nvars, nhist, evars, snapshot, svars, emitter, notified, changeEventHandler>>

\* disconnect() has settled: stop() drops the listener and clears
\* isListening, or raises a DBChangeError.
AdapterStopSettled ==
    /\ adapterCall.pc = "disconnect"
    /\ HasSettled(disc)
    /\ disc' = IdleDisc
    /\ IF disc.pc = "resolved"
       THEN /\ hasListener' = FALSE
            /\ isListening' = FALSE
            /\ adapterCall' = [adapterCall EXCEPT !.pc = "idle", !.result = "resolved"]
       ELSE /\ adapterCall' = [adapterCall EXCEPT !.pc = "idle", !.result = "rejected"]
            /\ UNCHANGED <<hasListener, isListening>>
    /\ UNCHANGED <<client, connected, connectionAttempts, reconnectTimeout, retryTimers, cstat, conns, lhist>>
    /\ UNCHANGED handlerRegistered
    /\ UNCHANGED <<subhist, avars, dbvars, ahist, nvars, nhist, evars, snapshot, svars, emitter, notified, changeEventHandler>>

\* start() or stop() resumes as soon as the call it awaits has settled.
AdapterResuming ==
    \/ adapterCall.pc = "connect" /\ \E s \in Slots : conns[s].awaited /\ HasSettled(conns[s])
    \/ adapterCall.pc = "disconnect" /\ HasSettled(disc)

(***************************************************************************)
(* A delivery sink on its own: BaseDelivery around the hooks of a variant, *)
(* here the streaming sink's; `ok` tells whether the hook a call runs      *)
(* throws, which it does before it has done anything.                      *)
(***************************************************************************)
MaxSseClients == 2
MaxTimers == 2
MaxSinkOps == 2

SseIds == 1..MaxSseClients
TimerIds == 1..MaxTimers
\* An event, or a batch of two.
SinkPayloads == {<<1>>, <<1, 2>>}

NoStep ==
    [call |-> "none", settled |-> FALSE, hook |-> "none", result |-> "none", was |-> FALSE,
     before |-> <<>>, payload |-> <<>>, fail |-> <<>>]

InitSink ==
    /\ sseInitialized = FALSE
    /\ heartbeatInterval = NULL
    /\ timers = {}
    /\ sseClients = <<>>
    /\ responses = [c \in SseIds |-> "unused"]
    /\ sinkOps = <<>>
    /\ received = [c \in SseIds |-> <<>>]
    /\ lastStep = NoStep

Without(q, gone) == LET Stays(c) == c \notin gone IN SelectSeq(q, Stays)

\* initialize(), up to `await this.initializeDelivery()`: the streaming
\* sink's hook starts the heartbeat timer.
Initialize(ok) ==
    /\ IF sseInitialized
       THEN /\ lastStep' = [NoStep EXCEPT !.call = "initialize", !.result = "resolved", !.was = TRUE]
            /\ UNCHANGED <<heartbeatInterval, timers, sinkOps>>
       ELSE /\ Len(sinkOps) < MaxSinkOps
            /\ lastStep' = [NoStep EXCEPT !.call = "initialize", !.hook = "setup", !.result = "pending"]
            /\ sinkOps' = Append(sinkOps, [op |-> "initialize", ok |-> ok])
            /\ IF ok
               THEN \E t \in TimerIds \ timers :
                        /\ heartbeatInterval' = t
                        /\ timers' = timers \cup {t}
               ELSE UNCHANGED <<heartbeatInterval, timers>>
    /\ UNCHANGED <<sseInitialized, sseClients, responses, received, notSink>>

\* What deliverEvent writes to client c of the registry `before`: the events
\* of the payload up to the one whose write throws, had the failure of one
\* client ended the loop over the clients.
WrittenUntilFailure(c, before, payload, fail) ==
    IF \E k \in 1..Len(before) :
           /\ fail[before[k]] # 0
           /\ \E j \in 1..Len(before) : before[j] = c /\ k < j
    THEN <<>>
    ELSE SubSeq(payload, 1, IF fail[c] = 0 THEN Len(payload) ELSE fail[c] - 1)

\* What deliverEvent writes to client c: the events of the payload, in
\* order, up to the one whose write throws.
Written(c, before, payload, fail) ==
    SubSeq(payload, 1, IF fail[c] = 0 THEN Len(payload) ELSE fail[c] - 1)

\* deliver(payload), up to `await this.deliverEvent(event)`: the streaming
\* sink writes every event to every client, and removes the client whose
\* write throws; fail[c] is the event at which the write to c throws, or 0.
Deliver(payload, fail, ok) ==
    /\ IF ~sseInitialized
       THEN /\ lastStep' = [NoStep EXCEPT !.call = "deliver", !.result = "rejected"]
            /\ UNCHANGED <<sseClients, responses, sinkOps, received>>
       ELSE /\ Len(sinkOps) < MaxSinkOps
            /\ sinkOps' = Append(sinkOps, [op |-> "deliver", ok |-> ok])
            /\ lastStep' = [NoStep EXCEPT !.call = "deliver", !.hook = "send", !.result = "pending",
                                          !.was = TRUE, !.before = sseClients, !.payload = payload,
                                          !.fail = fail]
            /\ IF ok
               THEN LET gone == {c \in Range(sseClients) : fail[c] # 0}
                    IN  /\ received' = [c \in SseIds |->
                                           IF c \in Range(sseClients)
                                           THEN Written(c, sseClients, payload, fail) ELSE <<>>]
                        /\ sseClients' = Without(sseClients, gone)
                        /\ responses' = [c \in SseIds |-> IF c \in gone THEN "ended" ELSE responses[c]]
               ELSE UNCHANGED <<sseClients, responses, received>>
    /\ UNCHANGED <<sseInitialized, heartbeatInterval, timers, notSink>>

\* close(), up to `await this.closeDelivery()`: the streaming sink's hook
\* clears the timer it holds, ends every client and clears the registry.
Close(ok) ==
    /\ IF ~sseInitialized
       THEN /\ lastStep' = [NoStep EXCEPT !.call = "close", !.result = "resolved"]
            /\ UNCHANGED <<heartbeatInterval, timers, sseClients, responses, sinkOps>>
       ELSE /\ Len(sinkOps) < MaxSinkOps
            /\ sinkOps' = Append(sinkOps, [op |-> "close", ok |-> ok])
            /\ lastStep' = [NoStep EXCEPT !.call = "close", !.hook = "teardown", !.result = "pending",
                                          !.was = TRUE]
            /\ IF ok
               THEN /\ timers' = timers \ {heartbeatInterval}
                    /\ heartbeatInterval' = NULL
                    /\ responses' = [c \in SseIds |-> IF c \in Range(sseClients) THEN "ended" ELSE responses[c]]
                    /\ sseClients' = <<>>
               ELSE UNCHANGED <<heartbeatInterval, timers, sseClients, responses>>
    /\ UNCHANGED <<sseInitialized, received, notSink>>

\* The flag after a call resumed, had the outcome of its hook not mattered.
SettleWhatever(op, ok, flag) ==
    IF op = "initialize" THEN TRUE
    ELSE IF op = "close" THEN FALSE
    ELSE flag

\* The flag after a call resumed from its hook: initialize() sets it and
\* close() clears it, each only when its hook did not throw.
Settle(op, ok, flag) ==
    IF ~ok THEN flag
    ELSE IF op = "initialize" THEN TRUE
    ELSE IF op = "close" THEN FALSE
    ELSE flag

\* The oldest suspended call resumes after its hook; the failure of the hook
\* is raised as a DeliveryError.
SinkSettled ==
    /\ sinkOps # <<>>
    /\ LET o == Head(sinkOps)
       IN  /\ sinkOps' = Tail(sinkOps)
           /\ sseInitialized' = Settle(o.op, o.ok, sseInitialized)
           /\ lastStep' = [NoStep EXCEPT !.call = o.op, !.settled = TRUE, !.was = sseInitialized,
                                         !.result = IF o.ok THEN "resolved" ELSE "rejected"]
    /\ UNCHANGED <<heartbeatInterval, timers, sseClients, responses, received, notSink>>

\* registerClient(res) with a response that takes the first writes.
RegisterClient(c) ==
    /\ responses[c] = "unused"
    /\ responses' = [responses EXCEPT ![c] = "open"]
    /\ sseClients' = Append(sseClients, c)
    /\ lastStep' = [NoStep EXCEPT !.call = "registerClient", !.result = "resolved", !.was = sseInitialized]
    /\ UNCHANGED <<sseInitialized, heartbeatInterval, timers, sinkOps, received, notSink>>

\* removeClient(clientId).
RemoveClient(c) ==
    /\ responses[c] # "unused"
    /\ IF c \in Range(sseClients)
       THEN /\ responses' = [responses EXCEPT ![c] = "ended"]
            /\ sseClients' = Without(sseClients, {c})
       ELSE UNCHANGED <<responses, sseClients>>
    /\ lastStep' = [NoStep EXCEPT !.call = "removeClient", !.result = "resolved", !.was = sseInitialized]
    /\ UNCHANGED <<sseInitialized, heartbeatInterval, timers, sinkOps, received, notSink>>

\* An active interval timer fires: sendHeartbeat() writes to every client
\* and removes those whose write throws.
SendHeartbeat(t, gone) ==
    /\ t \in timers
    /\ gone \subseteq Range(sseClients)
    /\ responses' = [c \in SseIds |-> IF c \in gone THEN "ended" ELSE responses[c]]
    /\ sseClients' = Without(sseClients, gone)
    /\ lastStep' = [NoStep EXCEPT !.call = "sendHeartbeat", !.result = "resolved", !.was = sseInitialized]
    /\ UNCHANGED <<sseInitialized, heartbeatInterval, timers, sinkOps, received, notSink>>

(***************************************************************************)
(* Error reporting: the adapter's error handlers and the orchestrator's    *)
(* error list.                                                             *)
(***************************************************************************)
MaxHandlers == 2
MaxReports == 4
\* stats.errors keeps 100 entries; the model keeps MaxErrors.
MaxErrors == 2

\* What a handler does with the error: the orchestrator's records its
\* message, a caller's returns or raises.
HandlerKinds == {"returns", "raises", "records"}
ErrorMessages == {"a", "b", "c", "d"}

InitErrors ==
    /\ errorHandlers = <<>>
    /\ errors = <<>>
    /\ now = 0
    /\ invoked = <<>>
    /\ reports = 0
    /\ since = [m \in ErrorMessages |-> 0]

\* getStats(): `{ ...this.stats }` copies the fields of stats, so the numbers
\* are copied and the tallies are the objects stats holds.
InitSnapshot == snapshot = [taken |-> FALSE, copy |-> InitStats]

GetStats ==
    /\ snapshot' = [taken |-> TRUE, copy |-> stats]
    /\ UNCHANGED notSnapshot

\* What a caller reads through the object getStats() returned: its own
\* numbers, and the tallies as they are now.
Seen ==
    [snapshot.copy EXCEPT !.eventsByOperation = stats.eventsByOperation,
                          !.eventsByTable = stats.eventsByTable]

\* orphaned: the adapter has replaced or dropped a listener that still held
\* a connection, an attempt in flight or a retry timer.
IdleAdapterCall == [op |-> "none", pc |-> "idle", result |-> "none", orphaned |-> FALSE]

InitCallers ==
    /\ emitter = NULL
    /\ notified = 0
    /\ adapterCall = IdleAdapterCall
    /\ changeEventHandler = "processEvent"

InitSide == InitErrors /\ InitSnapshot /\ InitSink /\ InitCallers

\* onError(handler); an orchestrator registers its handler once.
OnError(h) ==
    /\ Len(errorHandlers) < MaxHandlers
    /\ h = "records" => \A i \in 1..Len(errorHandlers) : errorHandlers[i] # "records"
    /\ errorHandlers' = Append(errorHandlers, h)
    /\ UNCHANGED <<errors, now, invoked, reports, since, notErrors>>

\* Array.prototype.sort by `b.time - a.time`: stable, latest first.
RECURSIVE InsertByTime(_, _)
InsertByTime(e, sorted) ==
    IF sorted = <<>> THEN <<e>>
    ELSE IF Head(sorted).time >= e.time THEN <<Head(sorted)>> \o InsertByTime(e, Tail(sorted))
    ELSE <<e>> \o sorted

RECURSIVE SortByTime(_)
SortByTime(q) ==
    IF q = <<>> THEN <<>> ELSE InsertByTime(q[Len(q)], SortByTime(SubSeq(q, 1, Len(q) - 1)))

Holding(errs, m) == {k \in 1..Len(errs) : errs[k].message = m}

\* recordError, had it pushed an entry for every message recorded.
RecordErrorAlwaysPushed(errs, m, t) ==
    LET pushed == Append(errs, [time |-> t, message |-> m, count |-> 1])
    IN  IF Len(pushed) > MaxErrors THEN SubSeq(SortByTime(pushed), 1, MaxErrors) ELSE pushed

\* recordError(errorMessage) at time t.
RecordError(errs, m, t) ==
    LET found == Holding(errs, m)
        k == CHOOSE i \in found : \A j \in found : i <= j
        recorded == IF found # {}
                    THEN [errs EXCEPT ![k] = [@ EXCEPT !.count = @ + 1, !.time = t]]
                    ELSE Append(errs, [time |-> t, message |-> m, count |-> 1])
    IN  IF Len(recorded) > MaxErrors THEN SubSeq(SortByTime(recorded), 1, MaxErrors) ELSE recorded

RECURSIVE RunFromUncaught(_, _)
RECURSIVE RunFrom(_, _)
\* The loop of handleError, had it no try block around the handler's call.
RunFromUncaught(i, hs) ==
    IF i > Len(hs) THEN <<>>
    ELSE IF hs[i] = "raises" THEN <<i>> ELSE <<i>> \o RunFromUncaught(i + 1, hs)

\* The loop of handleError from handler i on: the handlers invoked, in order;
\* what a handler raises is caught and logged.
RunFrom(i, hs) ==
    IF i > Len(hs) THEN <<>> ELSE <<i>> \o RunFrom(i + 1, hs)

\* The adapter reports an error with message m, dt after the last one:
\* handleError(err) calls the handlers; the orchestrator's records the message.
HandleError(m, dt) ==
    /\ reports < MaxReports
    /\ reports' = reports + 1
    /\ now' = now + dt
    /\ LET run == RunFrom(1, errorHandlers)
           records == \E k \in 1..Len(run) : errorHandlers[run[k]] = "records"
       IN  /\ invoked' = run
           /\ errors' = IF records THEN RecordError(errors, m, now + dt) ELSE errors
           /\ since' = IF records
                       THEN [since EXCEPT ![m] = IF Holding(errors, m) # {} THEN @ + 1 ELSE 1]
                       ELSE since
    /\ UNCHANGED <<errorHandlers, notErrors>>

(***************************************************************************)
(* Specifications.                                                         *)
(***************************************************************************)
Init ==
    /\ InitListener
    /\ InitAdapter({{}})
    /\ InitNotifier(Configs({<<"sse", "custom">>}, TransformationLists))
    /\ InitSide

DefaultConfig ==
    [batchingEnabled |-> FALSE, batchSize |-> 1, delivery |-> <<"sse", "custom">>,
     transformations |-> <<>>, tables |-> PlainFilter]

InitComponent == InitListener /\ InitAdapter({{}}) /\ InitNotifier({DefaultConfig}) /\ InitSide

InitAdapterAlone == InitListener /\ InitAdapter(Leftovers) /\ InitNotifier({DefaultConfig}) /\ InitSide

\* The listener alone, driven by its caller.
SpecListener == InitComponent /\ [][NextListener]_vars

\* The listener's subscription: a caller that awaits connect(), a server that
\* accepts connections, transport errors on the connection held, and the
\* notifications that arrive.
NextSubscription ==
    \/ (\A s \in Slots : conns[s].pc = "idle") /\ CallConnect
    \/ \E s \in Slots : ConnectOpened(s, TRUE)
    \/ \E s \in Slots : ConnectListened(s, TRUE)
    \/ TimerFire
    \/ \E c \in Clients : c = client /\ ErrorEvent(c)
    \/ \E c \in Clients, m \in Messages : Notification(c, m.channel, m.payload)
    \/ CallDisconnect
    \/ DisconnectUnlistened(TRUE)
    \/ DisconnectEnded(TRUE)

SpecSubscription == InitComponent /\ [][NextSubscription]_vars

\* The adapter's trigger management alone, driven by its caller.
SpecAdapter == InitAdapterAlone /\ [][NextAdapter]_vars

\* The orchestrator in service: initialize(), events, deliveries, stop(),
\* with a database that, once reached, does not fail.
Next ==
    \/ ~Resuming /\ CallInitialize
    \/ ~Resuming /\ \E ok \in BOOLEAN : TestConnectionSettled(ok)
    \/ ~Resuming /\ SetupAcquired(TRUE)
    \/ ~Resuming /\ SetupBegun(TRUE)
    \/ ~Resuming /\ SetupFunctionCreated(TRUE)
    \/ ~Resuming /\ SetupCatalogRead(TRUE)
    \/ ~Resuming /\ SetupTriggerCreated(TRUE)
    \/ ~Resuming /\ SetupCommitted(TRUE)
    \/ ~Resuming /\ \E s \in Slots : ConnectOpened(s, TRUE)
    \/ ~Resuming /\ \E s \in Slots : ConnectListened(s, TRUE)
    \/ ~Resuming /\ \E t \in Tables, o \in Ops : ProcessEvent(t, o)
    \/ ~Resuming /\ \E k \in 1..MaxEvents, i \in SinkIds, ok \in BOOLEAN : HandlerSettled(k, i, ok)
    \/ ~Resuming /\ BatchTimerFired
    \/ ~Resuming /\ CallStop
    \/ ~Resuming /\ DisconnectUnlistened(TRUE)
    \/ ~Resuming /\ DisconnectEnded(TRUE)
    \/ ~Resuming /\ TeardownAcquired(TRUE)
    \/ ~Resuming /\ TeardownBegun(TRUE)
    \/ ~Resuming /\ TeardownDropped(TRUE)
    \/ ~Resuming /\ TeardownCommitted(TRUE)
    \/ Resume

Spec == Init /\ [][Next]_vars

\* The orchestrator in service with a handler-backed sink registered first.
InitFanOut ==
    /\ InitListener
    /\ InitAdapter({{}})
    /\ InitNotifier(Configs({<<"custom", "custom">>, <<"custom", "sse">>}, {<<>>}))
    /\ InitSide

\* Service as in Next, with one kind of event.
NextFanOut ==
    \/ ~Resuming /\ CallInitialize
    \/ ~Resuming /\ \E ok \in BOOLEAN : TestConnectionSettled(ok)
    \/ ~Resuming /\ SetupAcquired(TRUE)
    \/ ~Resuming /\ SetupBegun(TRUE)
    \/ ~Resuming /\ SetupFunctionCreated(TRUE)
    \/ ~Resuming /\ SetupCatalogRead(TRUE)
    \/ ~Resuming /\ SetupTriggerCreated(TRUE)
    \/ ~Resuming /\ SetupCommitted(TRUE)
    \/ ~Resuming /\ \E s \in Slots : ConnectOpened(s, TRUE)
    \/ ~Resuming /\ \E s \in Slots : ConnectListened(s, TRUE)
    \/ ~Resuming /\ ProcessEvent(Users, "insert")
    \/ ~Resuming /\ \E k \in 1..MaxEvents, i \in SinkIds, ok \in BOOLEAN : HandlerSettled(k, i, ok)
    \/ ~Resuming /\ BatchTimerFired
    \/ ~Resuming /\ CallStop
    \/ ~Resuming /\ DisconnectUnlistened(TRUE)
    \/ ~Resuming /\ DisconnectEnded(TRUE)
    \/ ~Resuming /\ TeardownAcquired(TRUE)
    \/ ~Resuming /\ TeardownBegun(TRUE)
    \/ ~Resuming /\ TeardownDropped(TRUE)
    \/ ~Resuming /\ TeardownCommitted(TRUE)
    \/ Resume

SpecFanOut == InitFanOut /\ [][NextFanOut]_vars

\* Batches of MaxBatchSize events handed to a handler-backed sink registered
\* first, with one event more than the first batch takes.
InitOverlap ==
    /\ InitListener
    /\ InitAdapter({{}})
    /\ InitNotifier({c \in Configs({<<"custom", "custom">>, <<"custom", "sse">>}, {<<>>}) :
                         c.batchingEnabled /\ c.batchSize = MaxBatchSize})
    /\ InitSide

\* The orchestrator in service while the handler is still at work on a batch.
NextOverlap ==
    \/ ~Resuming /\ CallInitialize
    \/ ~Resuming /\ TestConnectionSettled(TRUE)
    \/ ~Resuming /\ SetupAcquired(TRUE)
    \/ ~Resuming /\ SetupBegun(TRUE)
    \/ ~Resuming /\ SetupFunctionCreated(TRUE)
    \/ ~Resuming /\ SetupCatalogRead(TRUE)
    \/ ~Resuming /\ SetupTriggerCreated(TRUE)
    \/ ~Resuming /\ SetupCommitted(TRUE)
    \/ ~Resuming /\ \E s \in Slots : ConnectOpened(s, TRUE)
    \/ ~Resuming /\ \E s \in Slots : ConnectListened(s, TRUE)
    \/ ~Resuming /\ CanNotify /\ ProcessEventWithin(MaxBatchSize + 1, Users, "insert") /\ UNCHANGED subhist
    \/ ~Resuming /\ \E k \in 1..(MaxBatchSize + 1), i \in SinkIds, ok \in BOOLEAN : HandlerSettled(k, i, ok)
    \/ ~Resuming /\ BatchTimerFired
    \/ SetupSettled
    \/ StartSettled

SpecOverlap == InitOverlap /\ [][NextOverlap]_vars

\* The orchestrator in service, fed by the payloads the channel carries.
NextParse ==
    \/ ~Resuming /\ CallInitialize
    \/ ~Resuming /\ TestConnectionSettled(TRUE)
    \/ ~Resuming /\ SetupAcquired(TRUE)
    \/ ~Resuming /\ SetupBegun(TRUE)
    \/ ~Resuming /\ SetupFunctionCreated(TRUE)
    \/ ~Resuming /\ SetupCatalogRead(TRUE)
    \/ ~Resuming /\ SetupTriggerCreated(TRUE)
    \/ ~Resuming /\ SetupCommitted(TRUE)
    \/ ~Resuming /\ \E s \in Slots : ConnectOpened(s, TRUE)
    \/ ~Resuming /\ \E s \in Slots : ConnectListened(s, TRUE)
    \/ ~Resuming /\ \E p \in Wire : HandleNotification(p)
    \/ ~Resuming /\ \E k \in 1..MaxEvents, i \in SinkIds : HandlerSettled(k, i, TRUE)
    \/ SetupSettled
    \/ StartSettled

SpecParse == InitComponent /\ [][NextParse]_vars

\* The writes that throw during one deliver call: only a write to a client
\* of the registry can.
Failures(payload) ==
    {fail \in [SseIds -> 0..Len(payload)] : \A c \in SseIds \ Range(sseClients) : fail[c] = 0}

\* A sink whose caller awaits every call, and whose hooks may throw.
NextSink ==
    \/ sinkOps = <<>> /\ \E ok \in BOOLEAN : Initialize(ok)
    \/ sinkOps = <<>> /\ \E p \in SinkPayloads, ok \in BOOLEAN : \E fail \in Failures(p) : Deliver(p, fail, ok)
    \/ sinkOps = <<>> /\ \E ok \in BOOLEAN : Close(ok)
    \/ SinkSettled
    \/ sinkOps = <<>> /\ \E c \in SseIds : RegisterClient(c)
    \/ sinkOps = <<>> /\ \E c \in SseIds : RemoveClient(c)
    \/ sinkOps = <<>> /\ \E t \in timers, gone \in SUBSET Range(sseClients) : SendHeartbeat(t, gone)

SpecSink == InitComponent /\ [][NextSink]_vars

\* The streaming sink, whose hooks do not throw, with callers that do not
\* wait for one another.
NextSse ==
    \/ Initialize(TRUE)
    \/ \E p \in SinkPayloads : \E fail \in Failures(p) : Deliver(p, fail, TRUE)
    \/ Close(TRUE)
    \/ SinkSettled
    \/ \E c \in SseIds : RegisterClient(c)
    \/ \E c \in SseIds : RemoveClient(c)
    \/ \E t \in timers, gone \in SUBSET Range(sseClients) : SendHeartbeat(t, gone)

SpecSse == InitComponent /\ [][NextSse]_vars

\* The listener whose connections break: a caller that awaits connect(),
\* retries and transport errors, each error reported to the error callback.
NextTransport ==
    \/ (\A s \in Slots : conns[s].pc = "idle") /\ CallConnect
    \/ TimerFire
    \/ \E s \in Slots, ok \in BOOLEAN : ConnectOpened(s, ok)
    \/ \E s \in Slots, ok \in BOOLEAN : ConnectListened(s, ok)
    \/ \E s \in Slots : ConnectEnded(s)
    \/ \E c \in Clients : TransportError(c)

SpecTransport == InitComponent /\ [][NextTransport]_vars

\* The orchestrator in service, fed by the payloads the channel carries, with
\* a caller that overrides the change event handler at any time.
NextOverride ==
    \/ NextParse
    \/ ~Resuming /\ OnChangeEvent

SpecOverride == InitComponent /\ [][NextOverride]_vars

\* The adapter's start() and stop(), each awaited by the caller, over a
\* server that may refuse and connections that may break.
NextStartStop ==
    \/ AdapterStart
    \/ AdapterStartSettled
    \/ AdapterStop
    \/ AdapterStopSettled
    \/ ~AdapterResuming /\ TimerFire
    \/ ~AdapterResuming /\ \E s \in Slots, ok \in BOOLEAN : ConnectOpened(s, ok)
    \/ ~AdapterResuming /\ \E s \in Slots, ok \in BOOLEAN : ConnectListened(s, ok)
    \/ ~AdapterResuming /\ \E s \in Slots : ConnectEnded(s)
    \/ ~AdapterResuming /\ \E c \in Clients : ErrorEvent(c)
    \/ ~AdapterResuming /\ \E ok \in BOOLEAN : DisconnectUnlistened(ok)
    \/ ~AdapterResuming /\ \E ok \in BOOLEAN : DisconnectEnded(ok)

SpecStartStop == InitComponent /\ [][NextStartStop]_vars

\* The adapter's error reporting: handlers are registered, errors reported.
NextErrors ==
    \/ \E h \in HandlerKinds : OnError(h)
    \/ \E m \in ErrorMessages, dt \in 0..1 : HandleError(m, dt)

SpecErrors == InitComponent /\ [][NextErrors]_vars

\* Configurations that select a delivery method without an implementation.
InitUnsupported ==
    /\ InitListener
    /\ InitAdapter({{}})
    /\ InitNotifier(Configs({<<"custom", "websocket">>, <<"webhook">>, <<"webhook", "sse">>, <<"sse", "custom">>},
                            {<<>>}))
    /\ InitSide

SpecUnsupported == InitUnsupported /\ [][NextFanOut]_vars

\* Service as in NextFanOut, with a caller that reads the statistics.
NextSnapshot ==
    \/ NextFanOut
    \/ ~Resuming /\ GetStats

SpecSnapshot == InitFanOut /\ [][NextSnapshot]_vars

\* The orchestrator's lifecycle with a database, a listener connection and
\* handlers that may fail at every step; batching is on, one kind of event.
LifecycleConfigs ==
    {c \in Configs({<<"sse", "custom">>, <<"custom", "websocket">>}, {<<>>}) :
        c.batchingEnabled /\ c.batchSize = MaxBatchSize}

InitLifecycle == InitListener /\ InitAdapter({{}}) /\ InitNotifier(LifecycleConfigs) /\ InitSide

NextLifecycle ==
    \/ ~Resuming /\ CallInitialize
    \/ ~Resuming /\ \E ok \in BOOLEAN : TestConnectionSettled(ok)
    \/ ~Resuming /\ \E ok \in BOOLEAN : SetupAcquired(ok)
    \/ ~Resuming /\ \E ok \in BOOLEAN : SetupBegun(ok)
    \/ ~Resuming /\ \E ok \in BOOLEAN : SetupFunctionCreated(ok)
    \/ ~Resuming /\ \E ok \in BOOLEAN : SetupCatalogRead(ok)
    \/ ~Resuming /\ \E ok \in BOOLEAN : SetupTriggerCreated(ok)
    \/ ~Resuming /\ \E ok \in BOOLEAN : SetupCommitted(ok)
    \/ ~Resuming /\ SetupRolledBack
    \/ ~Resuming /\ \E s \in Slots, ok \in BOOLEAN : ConnectOpened(s, ok)
    \/ ~Resuming /\ \E s \in Slots, ok \in BOOLEAN : ConnectListened(s, ok)
    \/ ~Resuming /\ \E s \in Slots : ConnectEnded(s)
    \/ ~Resuming /\ TimerFire
    \/ ~Resuming /\ \E c \in Clients : ErrorEvent(c)
    \/ ~Resuming /\ ProcessEvent(Users, "insert")
    \/ ~Resuming /\ \E k \in 1..MaxEvents, i \in SinkIds, ok \in BOOLEAN : HandlerSettled(k, i, ok)
    \/ ~Resuming /\ BatchTimerFired
    \/ ~Resuming /\ CallStop
    \/ ~Resuming /\ \E ok \in BOOLEAN : DisconnectUnlistened(ok)
    \/ ~Resuming /\ \E ok \in BOOLEAN : DisconnectEnded(ok)
    \/ ~Resuming /\ \E ok \in BOOLEAN : TeardownAcquired(ok)
    \/ ~Resuming /\ \E ok \in BOOLEAN : TeardownBegun(ok)
    \/ ~Resuming /\ \E ok \in BOOLEAN : TeardownDropped(ok)
    \/ ~Resuming /\ \E ok \in BOOLEAN : TeardownCommitted(ok)
    \/ ~Resuming /\ TeardownRolledBack
    \/ Resume

SpecLifecycle == InitLifecycle /\ [][NextLifecycle]_vars

\* The lifecycle with batches that the events of a run do not fill: the
\* timer alone flushes them.
BatchTimerConfigs ==
    {[c EXCEPT !.batchSize = MaxBatchSize + 1] : c \in LifecycleConfigs}

InitBatchTimer == InitListener /\ InitAdapter({{}}) /\ InitNotifier(BatchTimerConfigs) /\ InitSide

SpecBatchTimer == InitBatchTimer /\ [][NextLifecycle]_vars

\* Every awaited call of stop() settles, one way or the other, and a function
\* whose awaited call has settled resumes.
FairStop ==
    /\ WF_vars(Resume)
    /\ WF_vars(~Resuming /\ \E k \in 1..MaxEvents, i \in SinkIds, ok \in BOOLEAN : HandlerSettled(k, i, ok))
    /\ WF_vars(~Resuming /\ \E ok \in BOOLEAN : DisconnectUnlistened(ok))
    /\ WF_vars(~Resuming /\ \E ok \in BOOLEAN : DisconnectEnded(ok))
    /\ WF_vars(~Resuming /\ \E ok \in BOOLEAN : TeardownAcquired(ok))
    /\ WF_vars(~Resuming /\ \E ok \in BOOLEAN : TeardownBegun(ok))
    /\ WF_vars(~Resuming /\ \E ok \in BOOLEAN : TeardownDropped(ok))
    /\ WF_vars(~Resuming /\ \E ok \in BOOLEAN : TeardownCommitted(ok))
    /\ WF_vars(~Resuming /\ TeardownRolledBack)

\* The orchestrator brought into service without a failure, then stopped
\* while the connection may break and every call stop() awaits may fail.
NextStop ==
    \/ ~Resuming /\ CallInitialize
    \/ ~Resuming /\ TestConnectionSettled(TRUE)
    \/ ~Resuming /\ SetupAcquired(TRUE)
    \/ ~Resuming /\ SetupBegun(TRUE)
    \/ ~Resuming /\ SetupFunctionCreated(TRUE)
    \/ ~Resuming /\ SetupCatalogRead(TRUE)
    \/ ~Resuming /\ SetupTriggerCreated(TRUE)
    \/ ~Resuming /\ SetupCommitted(TRUE)
    \/ ~Resuming /\ \E s \in Slots : ConnectOpened(s, TRUE)
    \/ ~Resuming /\ \E s \in Slots : ConnectListened(s, TRUE)
    \/ ~Resuming /\ TimerFire
    \/ ~Resuming /\ \E c \in Clients : c = client /\ ErrorEvent(c)
    \/ ~Resuming /\ ProcessEvent(Users, "insert")
    \/ ~Resuming /\ \E k \in 1..MaxEvents, i \in SinkIds, ok \in BOOLEAN : HandlerSettled(k, i, ok)
    \/ ~Resuming /\ BatchTimerFired
    \/ ~Resuming /\ CallStop
    \/ ~Resuming /\ \E ok \in BOOLEAN : DisconnectUnlistened(ok)
    \/ ~Resuming /\ \E ok \in BOOLEAN : DisconnectEnded(ok)
    \/ ~Resuming /\ \E ok \in BOOLEAN : TeardownAcquired(ok)
    \/ ~Resuming /\ \E ok \in BOOLEAN : TeardownBegun(ok)
    \/ ~Resuming /\ \E ok \in BOOLEAN : TeardownDropped(ok)
    \/ ~Resuming /\ \E ok \in BOOLEAN : TeardownCommitted(ok)
    \/ ~Resuming /\ TeardownRolledBack
    \/ Resume

SpecStop == InitLifecycle /\ [][NextStop]_vars /\ FairStop

\* The orchestrator with a caller that may call initialize() again while it
\* runs, against a database that, by then, refuses the connection test: the
\* adapter built by the second call is dropped before it is kept.
NextReentry ==
    \/ ~Resuming /\ CallInitialize
    \/ ~Resuming /\ CallInitializeRunning
    \/ ~Resuming /\ \E ok \in BOOLEAN : (isRunning => ~ok) /\ TestConnectionSettled(ok)
    \/ ~Resuming /\ SetupAcquired(TRUE)
    \/ ~Resuming /\ SetupBegun(TRUE)
    \/ ~Resuming /\ SetupFunctionCreated(TRUE)
    \/ ~Resuming /\ SetupCatalogRead(TRUE)
    \/ ~Resuming /\ SetupTriggerCreated(TRUE)
    \/ ~Resuming /\ SetupCommitted(TRUE)
    \/ ~Resuming /\ \E s \in Slots : ConnectOpened(s, TRUE)
    \/ ~Resuming /\ \E s \in Slots : ConnectListened(s, TRUE)
    \/ ~Resuming /\ ProcessEvent(Users, "insert")
    \/ ~Resuming /\ \E k \in 1..MaxEvents, i \in SinkIds, ok \in BOOLEAN : HandlerSettled(k, i, ok)
    \/ ~Resuming /\ BatchTimerFired
    \/ ~Resuming /\ initCall.pc = "idle" /\ CallStop
    \/ ~Resuming /\ DisconnectUnlistened(TRUE)
    \/ ~Resuming /\ DisconnectEnded(TRUE)
    \/ ~Resuming /\ TeardownAcquired(TRUE)
    \/ ~Resuming /\ TeardownBegun(TRUE)
    \/ ~Resuming /\ TeardownDropped(TRUE)
    \/ ~Resuming /\ TeardownCommitted(TRUE)
    \/ Resume

SpecReentry == InitLifecycle /\ [][NextReentry]_vars

(***************************************************************************)
(* Claims about the orchestrator's event pipeline (Spec).                  *)
(***************************************************************************)
Last(q) == q[Len(q)]
LastN(q, n) == SubSeq(q, Len(q) - n + 1, Len(q))

\* A step in which a surviving event is handed on by processEvent.
Survives == Len(survivors') = Len(survivors) + 1

\* C1: with batching enabled and batch size S, the step that buffers the S-th
\* surviving event since the last flush issues exactly one flush, whose batch is
\* those S events in arrival order, and leaves the buffer empty.
FlushOnFull ==
    [][(cfg.batchingEnabled /\ Survives /\ Len(eventBuffer) + 1 = cfg.batchSize)
         => /\ Len(calls') = Len(calls) + 1
            /\ Last(calls').batch
            /\ Last(calls').payload = LastN(survivors', cfg.batchSize)
            /\ \A k \in 1..Len(calls) : calls'[k].payload = calls[k].payload
            /\ eventBuffer' = <<>>]_vars

FullBatchFlushed ==
    /\ cfg.batchingEnabled
    /\ cfg.batchSize > 1
    /\ eventBuffer = <<>>
    /\ \E k \in 1..Len(calls) : calls[k].batch /\ Len(calls[k].payload) = cfg.batchSize

Singletons(q) == [k \in 1..Len(q) |-> <<q[k]>>]

\* C2: with batching disabled, every configured sink has been called with
\* exactly the surviving events, one call per event, in arrival order.
OneCallPerEventPerSink ==
    ~cfg.batchingEnabled =>
        \A i \in 1..Len(cfg.delivery) : sinkCalls[i] = Singletons(survivors)

TwoEventsFannedOut ==
    /\ ~cfg.batchingEnabled
    /\ Len(survivors) = 2
    /\ \A i \in SinkIds : Len(sinkCalls[i]) = 2

AllSinksSucceeded(c) == \A i \in SinkIds : c.res[i] \in {"ok", "none"}
SomeSinkFailed(c) == \E i \in SinkIds : c.res[i] = "failed"
Number(P(_)) == Cardinality({k \in 1..Len(calls) : P(calls[k])})
Decided(c) == AllSinksSucceeded(c) \/ SomeSinkFailed(c)

\* C3: every fan-out call that has settled has raised deliveryAttempts by one
\* and one of deliverySuccesses, deliveryFailures by one, whatever the number
\* of sinks; it is a success only if every sink's deliver succeeded; so
\* deliveryAttempts = deliverySuccesses + deliveryFailures.
OneCountPerFanOut ==
    /\ stats.deliveryAttempts = Number(Decided)
    /\ stats.deliverySuccesses = Number(AllSinksSucceeded)
    /\ stats.deliveryAttempts = stats.deliverySuccesses + stats.deliveryFailures

TwoSinksOneSuccess ==
    /\ Len(calls) = 1
    /\ ~calls[1].batch
    /\ calls[1].res[1] = "ok"
    /\ calls[1].res[2] = "ok"
    /\ stats.deliverySuccesses = 1

\* C20: when a sink's deliver has failed in a fan-out, every configured sink
\* has been called with the payload of that fan-out, and the fan-out counts
\* as one failure.
FailureLeavesOthersCalled ==
    /\ \A k \in 1..Len(calls) :
          SomeSinkFailed(calls[k]) =>
              \A i \in 1..Len(cfg.delivery) :
                  k <= Len(sinkCalls[i]) /\ sinkCalls[i][k] = calls[k].payload
    /\ stats.deliveryFailures = Number(SomeSinkFailed)

FirstSinkFailedSecondCalled ==
    /\ Len(calls) = 1
    /\ Len(calls[1].payload) = 2
    /\ calls[1].res[1] = "failed"
    /\ calls[1].res[2] = "pending"
    /\ sinkCalls[2] = <<calls[1].payload>>
    /\ stats.deliveryFailures = 1

WellFormed(p) == p \in {"{operation:INSERT,table:u}", "{operation:update,table:o}"}
Row(p) == IF p = "{operation:INSERT,table:u}" THEN <<Users, "insert">> ELSE <<Orders, "update">>

\* C22: the change events emitted are those of the well-formed payloads
\* received, in order: a payload that does not parse produces none and
\* stops none; and handling a payload leaves the adapter listening.
MalformedPayloadDropped ==
    /\ [](LET good == SelectSeq(passed, WellFormed)
          IN  /\ Len(survivors) = Len(good)
              /\ \A k \in 1..Len(good) : <<survivors[k].table, survivors[k].op>> = Row(good[k]))
    /\ [][passed' # passed => UNCHANGED <<lvars, alisten>>]_vars

EventAfterMalformedPayload ==
    /\ passed = <<"{", "{operation:update,table:o}">>
    /\ Len(survivors) = 1
    /\ survivors[1].table = Orders
    /\ isListening

\* The adapter emits a change event to its handler.
EventEmitted ==
    /\ Len(passed') = Len(passed) + 1
    /\ WellFormed(passed'[Len(passed')])
    /\ handlerRegistered

\* C31: once onChangeEvent(h) has been called, a change event the adapter
\* emits is passed to h, not to the orchestrator's processEvent: the
\* orchestrator neither counts nor delivers it.
OverrideReceivesEvents ==
    [][(changeEventHandler = "h" /\ EventEmitted) =>
          UNCHANGED <<stats, nextId, calls, eventBuffer, survivors>>]_vars

\* C27: the custom sink's handler is invoked for the events of the payload
\* one at a time, in order, the next only once the last has completed; when
\* an invocation fails no other follows in that call, and the call fails.
HandlerInvokedInTurn ==
    /\ [](\A k \in 1..Len(calls) : \A i \in 1..Len(cfg.delivery) :
            (cfg.delivery[i] = "custom" /\ calls[k].res[i] # "none") =>
                /\ calls[k].pos[i] \in 1..Len(calls[k].payload)
                /\ calls[k].res[i] = "ok" => calls[k].pos[i] = Len(calls[k].payload)
                /\ calls[k].res[i] = "failed" => calls[k].outcome = "failed")
    /\ [][\A k \in 1..Len(calls) : \A i \in SinkIds :
            /\ calls'[k].pos[i] \in {calls[k].pos[i], calls[k].pos[i] + 1}
            /\ calls'[k].res[i] = "failed" => calls'[k].pos[i] = calls[k].pos[i]
            /\ calls[k].res[i] # "pending" => calls'[k].res[i] = calls[k].res[i]]_vars

SecondInvocationFailed ==
    /\ Len(calls) = 1
    /\ cfg.delivery[1] = "custom"
    /\ Len(calls[1].payload) = 2
    /\ calls[1].pos[1] = 2
    /\ calls[1].res[1] = "failed"

RECURSIVE Flatten(_)
Flatten(qs) == IF qs = <<>> THEN <<>> ELSE Head(qs) \o Flatten(Tail(qs))

Payloads == [k \in 1..Len(calls) |-> calls[k].payload]
FanOutFailed(c) == c.outcome = "failed"

\* C21: a sink's failure never leaves deliverEvent or deliverBatch: the call
\* resolves, the failure is counted, and every event that has arrived, before
\* or after the failure, has been counted and handed to a fan-out or buffered.
DeliveryFailureContained ==
    /\ \A k \in 1..Len(calls) :
          /\ calls[k].returned # "rejected"
          /\ SomeSinkFailed(calls[k]) => calls[k].returned = "resolved"
    /\ stats.deliveryFailures = Number(FanOutFailed)
    /\ stats.eventsProcessed = nextId - 1
    /\ survivors = Flatten(Payloads) \o eventBuffer

EventDeliveredAfterFailure ==
    /\ ~cfg.batchingEnabled
    /\ Len(calls) = 2
    /\ calls[1].res[1] = "failed"
    /\ calls[1].returned = "resolved"
    /\ calls[2].outcome = "ok"
    /\ stats.eventsProcessed = 2

\* The pipeline as described: the entries whose pattern occurs in the table
\* name, applied in declared order from entry i on.
RECURSIVE Described(_, _, _)
Described(i, table, cur) ==
    IF i > Len(cfg.transformations) THEN cur
    ELSE IF RegExpTest(cfg.transformations[i].pattern, FALSE, table, 0).matched
         THEN IF Transform(cfg.transformations[i].fn, cur) = NoEvent THEN NoEvent
              ELSE Described(i + 1, table, Transform(cfg.transformations[i].fn, cur))
         ELSE Described(i + 1, table, cur)

Arrives == nextId' = nextId + 1

\* C8: for every event, the entries whose pattern matches its table are applied
\* in declared order; a null result drops it with no delivery call; otherwise
\* exactly the final value is delivered (unmodified when no entry matches).
PipelineAsDescribed ==
    [][Arrives =>
        \E t \in Tables, o \in Ops :
            LET e == [id |-> nextId, table |-> t, op |-> o, applied |-> <<>>]
            IN  /\ stats'.eventsByTable[t] = stats.eventsByTable[t] + 1
                /\ stats'.eventsByOperation[o] = stats.eventsByOperation[o] + 1
                /\ IF Described(1, t, e) = NoEvent
                   THEN survivors' = survivors /\ calls' = calls /\ eventBuffer' = eventBuffer
                   ELSE survivors' = Append(survivors, Described(1, t, e))]_vars

RECURSIVE SumOver(_, _)
SumOver(f, S) == IF S = {} THEN 0 ELSE LET x == CHOOSE y \in S : TRUE IN f[x] + SumOver(f, S \ {x})

\* C9: eventsProcessed is the number of events that arrived (dropped or not,
\* delivered or not), deliveryFailures the number of fan-out calls that failed,
\* and eventsProcessed is the sum of the per-operation and of the per-table counts.
StatsCountEverything ==
    /\ stats.eventsProcessed = nextId - 1
    /\ stats.deliveryFailures = Number(SomeSinkFailed)
    /\ stats.eventsProcessed = SumOver(stats.eventsByOperation, Ops)
    /\ stats.eventsProcessed = SumOver(stats.eventsByTable, Tables)

DroppedAndFailedCounted ==
    /\ stats.eventsProcessed = 2
    /\ Len(survivors) = 1
    /\ stats.deliveryFailures = 1

(***************************************************************************)
(* Claims about the orchestrator's lifecycle (SpecLifecycle).              *)
(***************************************************************************)
InitializeRejected == initCall.pc = "idle" /\ initCall.result = "failed"

\* C4: once initialize() has rejected, isActive() is false, every sink is
\* closed and unregistered, no trigger remains, and the listener is neither
\* connected, nor connecting, nor waiting to reconnect.
InitFailureLeavesNothing ==
    InitializeRejected =>
        /\ ~isRunning
        /\ deliveryMechanisms = <<>>
        /\ \A i \in SinkIds : ~sinkInit[i]
        /\ dbTriggers = {}
        /\ ~connected
        /\ reconnectTimeout = NULL
        /\ \A s \in Slots : conns[s].pc = "idle"

StopReturned == stopCall.pc = "idle" /\ stopCall.result = "ok"

Steps(log) == IF log # <<>> /\ Head(log)[1] = "flush" THEN Tail(log) ELSE log

\* C5: when stop() returns, the cleanup has flushed a pending batch, then
\* stopped the adapter, then torn it down, then closed every sink, whichever
\* of these steps failed.
CleanupRunsEveryStep ==
    StopReturned =>
        Steps(cleanupLog) = <<(<<"stop", 0>>), (<<"teardown", 0>>), (<<"close", 1>>), (<<"close", 2>>)>>

Unsupported == \E i \in 1..Len(cfg.delivery) : cfg.delivery[i] \notin SupportedMethods

NothingAfterStop ==
    /\ [](StopReturned => ~batchTimeout)
    /\ [][StopReturned => (nextId' = nextId /\ sinkCalls' = sinkCalls)]_vars

\* A batch is handed to the sinks.
Flushed == Len(calls') = Len(calls) + 1 /\ calls'[Len(calls')].batch

\* C35: at most one batch timer is pending, the one the orchestrator holds;
\* a timer is set only by the event that finds the buffer empty; a flush,
\* by size or by the timer, hands the sinks the buffered events in arrival
\* order and leaves the buffer empty and no timer pending.
OneBatchTimer ==
    /\ [](batchTimers <= 1 /\ (batchTimers = 1 <=> batchTimeout))
    /\ [][batchTimers' > batchTimers => (eventBuffer = <<>> /\ Len(eventBuffer') = 1)]_vars
    /\ [][Flushed =>
            /\ batchTimers' = 0
            /\ eventBuffer' = <<>>
            /\ nextId' = nextId => calls'[Len(calls')].payload = eventBuffer
            /\ nextId' # nextId =>
                   /\ SubSeq(calls'[Len(calls')].payload, 1, Len(eventBuffer)) = eventBuffer
                   /\ Len(calls'[Len(calls')].payload) = BatchSize]_vars

\* C36: when stop() has completed the buffer is empty, and every event that
\* was buffered has been handed to the sinks in one batch.
BufferedEventsDelivered ==
    StopReturned => (eventBuffer = <<>> /\ Flatten(Payloads) = survivors)

\* C39: the handler of a custom sink is handed the events in arrival order
\* across batches: whenever it is handed an event of a batch, it has been
\* handed no event of a later batch yet.
HandlerSeesArrivalOrder ==
    [][\A i \in SinkIds : \A k \in 1..Len(calls) : \A later \in (k + 1)..Len(calls) :
          (cfg.delivery[i] = "custom" /\ calls'[k].pos[i] > calls[k].pos[i])
              => calls[later].pos[i] = 0]_vars

\* C19: stop() never rejects: once called on a running orchestrator it
\* resolves, whichever of the flush, the adapter's stop, its teardown and the
\* closing of the sinks failed, and when it has resolved the orchestrator is
\* not running.
StopAlwaysResolves ==
    /\ [](stopCall.result # "failed")
    /\ [](StopReturned => ~isRunning)
    /\ (stopCall.pc # "idle") ~> StopReturned

StopResolvedAfterFailures ==
    /\ StopReturned
    /\ ~isRunning
    /\ Head(cleanupLog) = <<"flush", 0>>
    /\ stats.deliveryFailures = 1
    /\ <<"teardown", 0>> \notin Range(cleanupLog)
    /\ dbTriggers # {}

\* The state of the orchestrator's lifecycle.
Phase ==
    IF initCall.pc # "idle" THEN "Initializing"
    ELSE IF stopCall.pc # "idle" THEN "Stopping"
    ELSE IF isRunning THEN "Running"
    ELSE IF initCall.result = "none" /\ stopCall.result = "none" THEN "Created"
    ELSE "Stopped"

Transitions ==
    {<<"Created", "Initializing">>, <<"Initializing", "Running">>, <<"Running", "Stopping">>,
     <<"Stopping", "Stopped">>, <<"Initializing", "Stopped">>}

\* C18: the orchestrator only goes Created -> Initializing -> Running ->
\* Stopping -> Stopped, or Initializing -> Stopped; only stop() leaves Running.
OnlyLifecycleTransitions ==
    [][Phase' # Phase => <<Phase, Phase'>> \in Transitions]_vars

OnChannel(m) == m.channel = Channel
WithPayload(m) == m.channel = Channel /\ m.payload # ""
PayloadsOf(q) == [k \in 1..Len(q) |-> q[k].payload]

\* C14 as stated: the payloads passed to the callback are those of all the
\* notifications received on the configured channel, once each, in order.
EveryNotificationPassed == passed = PayloadsOf(SelectSeq(yielded, OnChannel))

\* C14, amended: the payloads passed to the callback are those of the
\* notifications received on the configured channel with a payload that is
\* not empty, once each, verbatim, in order; no other notification is passed.
EveryPayloadPassed == passed = PayloadsOf(SelectSeq(yielded, WithPayload))

TwoPassedOneSkipped ==
    /\ Len(yielded) = 3
    /\ yielded[1].channel = "other"
    /\ passed = <<"p", "q">>

(***************************************************************************)
(* Claims about the adapter's trigger management.                          *)
(***************************************************************************)
SetupRejected == setupCall.pc = "idle" /\ setupCall.result = "failed"

\* C10: when setupChangeNotifications has failed, no transaction is left
\* open, the database carries the triggers it carried before the call, and
\* the adapter is not set up.
SetupFailureLeavesNothing ==
    SetupRejected => (tx = NoTx /\ dbTriggers = dbBefore /\ ~initialized)

\* A setup that failed after the transaction had created a trigger (pool
\* connect, BEGIN, function, catalog, a trigger, a failing statement,
\* ROLLBACK).
SetupFailedAfterTrigger == SetupRejected /\ statements >= 7 /\ triggers # <<>>

Recorded == {triggers[i] : i \in 1..Len(triggers)}

\* C11: on an adapter that is set up and idle, a call of
\* setupChangeNotifications (the only step that does not begin a teardown)
\* returns at once, issues no statement and changes no adapter state; so does a
\* call of teardownChangeNotifications on one that is not set up.
SecondCallDoesNothing ==
    [][/\ (NoCallInFlight /\ initialized /\ teardownCall' = teardownCall)
            => /\ setupCall'.pc = "idle" /\ setupCall'.result = "ok"
               /\ statements' = 0
               /\ UNCHANGED <<initialized, triggers, dbTriggers, tx>>
       /\ (NoCallInFlight /\ ~initialized /\ setupCall' = setupCall)
            => /\ teardownCall'.pc = "idle" /\ teardownCall'.result = "ok"
               /\ statements' = 0
               /\ UNCHANGED <<initialized, triggers, dbTriggers, tx>>]_vars

SetupAndTeardownRepeated ==
    /\ NoCallInFlight
    /\ ~initialized
    /\ setupCall.result = "ok"
    /\ teardownCall.result = "ok"
    /\ statements = 0
    /\ dbTriggers = dbBefore

TeardownSettles == teardownCall.pc # "idle" /\ teardownCall'.pc = "idle"

\* C12: a teardown that succeeds has dropped exactly the recorded triggers,
\* cleared the records and the set-up flag; one that fails has changed no
\* trigger, no record and not the flag, and its transaction is gone.
TeardownDropsRecorded ==
    [][TeardownSettles =>
         IF teardownCall'.result = "ok"
         THEN dbTriggers' = dbBefore \ Recorded /\ triggers' = <<>> /\ ~initialized'
         ELSE /\ teardownCall'.result = "failed"
              /\ dbTriggers' = dbBefore
              /\ tx' = NoTx
              /\ triggers' = triggers
              /\ initialized']_vars

TeardownFailedAfterDrop ==
    /\ teardownCall.pc = "idle"
    /\ teardownCall.result = "failed"
    /\ statements >= 5
    /\ initialized
    /\ Recorded # {}
    /\ dbTriggers \ Recorded # {}

\* The table set as described: the base tables of the filter's schemas,
\* of the included names when include is present, less the excluded names.
ResolvedTables(f) ==
    {t \in Catalog : /\ t[1] \in (IF f.schemas = {} THEN {"public"} ELSE f.schemas)
                     /\ f.include = {} \/ t[2] \in f.include
                     /\ t[2] \notin f.exclude}

SetupSettles == setupCall.pc # "idle" /\ setupCall'.pc = "idle"

\* C13: a setup that meets no fault of the server has put a trigger on exactly
\* the tables the filter resolves to.
TriggersOnResolvedTables ==
    [][(SetupSettles /\ ~setupCall'.fault)
         => dbTriggers' = dbBefore \cup ResolvedTables(setupCall.filter)]_vars

\* C38: the trigger records are the triggers this adapter has installed:
\* on an idle adapter that is not set up there is no record, on one that is
\* set up every recorded trigger is in the database, and no trigger is
\* recorded twice.
RecordsAreInstalled ==
    /\ (NoCallInFlight /\ ~initialized) => triggers = <<>>
    /\ (NoCallInFlight /\ initialized) => Recorded \subseteq dbTriggers
    /\ \A i, j \in 1..Len(triggers) : triggers[i] = triggers[j] => i = j

(***************************************************************************)
(* Claims about the notification listener.                                 *)
(***************************************************************************)

\* C6: once disconnect() has been called and until the caller calls connect()
\* again, no step schedules a retry timer and no step makes the listener
\* connected.
NoReconnectAfterDisconnect ==
    [][(stopped /\ stopped') =>
          /\ connected' => connected
          /\ reconnectTimeout' # NULL => reconnectTimeout # NULL]_vars

\* min(1000 * 2^(n-1), 30000), written without the fraction 2^-1.
ClaimedDelay(n) == Min(500 * 2^n, 30000)

\* A step that schedules a retry: a connect attempt fails, or a transport
\* error disconnects the listener.
ConnectFailStep == failsSince' = failsSince + 1
TransportDisconnectStep == connected /\ ~connected' /\ attemptsSince' = attemptsSince + 1

\* C7 as stated: the retry scheduled by the K-th consecutive failed connect
\* attempt has delay min(1000 * 2^(K-1), 30000), and no delay exceeds 30000.
DelayByFailedAttempts ==
    [][/\ ConnectFailStep => reconnectTimeout' = ClaimedDelay(failsSince')
       /\ reconnectTimeout' <= 30000]_vars

\* C7 amended: every retry, scheduled by a failed connect attempt or by a
\* transport-error disconnect, has delay min(1000 * 2^(n-1), 30000), n being
\* the connect attempts begun plus the transport-error disconnects since
\* construction or the last successful connect; no delay exceeds 30000.
DelayByAttemptCounter ==
    [][/\ (ConnectFailStep \/ TransportDisconnectStep) =>
             reconnectTimeout' = ClaimedDelay(attemptsSince')
       /\ reconnectTimeout' <= 30000]_vars

\* The first connect attempt after a transport error has failed: one failed
\* attempt, counter 2, retry in 2000 ms.
FirstFailAfterTransportError ==
    failsSince = 1 /\ attemptsSince = 2 /\ reconnectTimeout = 2000 /\ conns = [s \in Slots |-> IdleConn]

\* C15: at the step in which a failed connect() re-raises the failure, the
\* listener is not connected, holds no connection, and a retry is pending.
FailedConnectLeavesRetry ==
    [][ConnectFailStep => (~connected' /\ client' = NULL /\ reconnectTimeout' # NULL)]_vars

SecondFailureRaised ==
    /\ failsSince = 2
    /\ attemptsSince = 2
    /\ ~connected
    /\ client = NULL
    /\ reconnectTimeout = 2000

\* A step in which disconnect() returns: at once, or after its awaits.
DisconnectReturns ==
    \/ disc.pc \in {"unlisten", "end"} /\ disc'.pc \notin {"unlisten", "end"}
    \/ ~stopped /\ stopped' /\ disc'.pc \notin {"unlisten", "end"}

\* C16: when disconnect() returns, normally or by raising, the listener is
\* not connected, holds no connection and has no retry timer pending.
DisconnectLeavesNothing ==
    [][DisconnectReturns => (~connected' /\ client' = NULL /\ reconnectTimeout' = NULL)]_vars

\* C30: what is read through an object getStats() returned is what the
\* statistics were when it was returned.
StatsSnapshotFrozen == snapshot.taken => Seen = snapshot.copy

\* C33: at most one retry timer is pending, the one the listener holds, and
\* the step in which a connect attempt fails leaves exactly one pending.
OneRetryTimer ==
    /\ [](retryTimers <= 1 /\ (retryTimers = 1 <=> reconnectTimeout # NULL))
    /\ [][ConnectFailStep => retryTimers' = 1]_vars

SecondRetryScheduled ==
    /\ failsSince = 2
    /\ retryTimers = 1
    /\ reconnectTimeout = 2000
    /\ conns = [s \in Slots |-> IdleConn]

\* The connections that are open or being opened.
Live == {c \in Clients : cstat[c] \in {"connecting", "open", "listening"}}

\* The connections that forward the channel's notifications to the callback.
Subscribed == {c \in Clients : cstat[c] = "listening"}

\* C37: at most one connection is open or being opened, whatever the order
\* of the caller's connect() calls, the firings of the retry timer and the
\* settling of the attempts in flight; so at most one forwards notifications.
OneConnection == Cardinality(Live) <= 1 /\ Cardinality(Subscribed) <= 1

\* An 'error' event is handled while the listener is listening.
ErrorWhileListening == notified' # notified /\ connected

\* C34: a transport error while the listener is listening calls the error
\* callback once, leaves the listener disconnected and holding no connection,
\* the one it held being closed, raises the attempt counter by one, and
\* leaves one retry pending, whether or not one was pending before.
TransportErrorHandled ==
    [][ErrorWhileListening =>
          /\ notified' = notified + 1
          /\ ~connected'
          /\ client' = NULL
          /\ client # NULL => cstat'[client] = "ended"
          /\ connectionAttempts' = connectionAttempts + 1
          /\ retryTimers' = 1
          /\ reconnectTimeout' = BackoffDelay(connectionAttempts')]_vars

\* Two 'error' events have been handled, the last one while listening.
RetryReplacedByTransportError ==
    /\ notified = 2
    /\ connectionAttempts = 1
    /\ failsSince = 0
    /\ ~connected
    /\ client = NULL
    /\ retryTimers = 1
    /\ reconnectTimeout = 1000

\* C40: an 'error' event of a connection the listener has released leaves
\* the listener as it is: still connected if it was, its connection open,
\* no retry scheduled.
ReleasedConnectionIgnored ==
    [][(notified' # notified /\ cstat[emitter'] = "ended" /\ emitter' # client) =>
          /\ connected' = connected
          /\ client' = client
          /\ client # NULL => cstat'[client] = cstat[client]
          /\ UNCHANGED <<reconnectTimeout, retryTimers>>]_vars

\* A call of start() or stop() by the adapter's caller.
AdapterCalled(op) == adapterCall.pc = "idle" /\ adapterCall' # adapterCall /\ adapterCall'.op = op

\* C32: the adapter never replaces or drops a listener that still holds
\* something; start() while listening and stop() while not listening change
\* nothing; and once stop() has returned the listener is not connected and
\* has no retry pending.
StartStopIdempotent ==
    /\ [](~adapterCall.orphaned)
    /\ [][(AdapterCalled("start") /\ isListening) => UNCHANGED <<lvars, alisten>>]_vars
    /\ [][(AdapterCalled("stop") /\ ~isListening) => UNCHANGED <<lvars, alisten>>]_vars
    /\ []((adapterCall.op = "stop" /\ adapterCall.pc = "idle") =>
              (~connected /\ reconnectTimeout = NULL))

(***************************************************************************)
(* Claims about error reporting (SpecErrors).                              *)
(***************************************************************************)
\* C23: a reported error invokes every registered handler once, in
\* registration order, whichever of them raise.
EveryHandlerInvoked ==
    [][reports' # reports => invoked' = [i \in 1..Len(errorHandlers) |-> i]]_vars

HandlerInvokedAfterRaise ==
    /\ errorHandlers = <<"raises", "records">>
    /\ invoked = <<1, 2>>
    /\ Len(errors) = 1

MessagesOf(q) == {q[k].message : k \in 1..Len(q)}
Removed == {r \in Range(errors) : r.message \notin MessagesOf(errors')}

\* C29: the error list holds at most the limit of entries, no two with the
\* same message; an entry's count is the number of times its message was
\* recorded since the entry was created; and an entry that leaves the list
\* leaves alone and is no younger than any entry that stays.
ErrorListPruned ==
    /\ [](/\ Len(errors) <= MaxErrors
          /\ \A j, k \in 1..Len(errors) : errors[j].message = errors[k].message => j = k
          /\ \A k \in 1..Len(errors) : errors[k].count = since[errors[k].message])
    /\ [][/\ Cardinality(Removed) <= 1
          /\ \A r \in Removed : \A k \in 1..Len(errors') : r.time <= errors'[k].time]_vars

OldestEntryPruned ==
    /\ Len(errors) = MaxErrors
    /\ since["b"] = 1
    /\ "b" \notin MessagesOf(errors)
    /\ \E k \in 1..Len(errors) : errors[k].message = "a" /\ errors[k].count = 2

(***************************************************************************)
(* Claims about the sinks (SpecSink, SpecSse).                             *)
(***************************************************************************)
\* C24: the variant's send runs only on an initialized sink, and deliver on
\* a sink that is not fails without running it; initialize() on an
\* initialized sink runs no setup, close() on a sink that is not initialized
\* runs no teardown; after a failed setup the sink is not initialized, after
\* a failed teardown it is.
HooksMatchLifecycle ==
    /\ lastStep.hook = "send" => lastStep.was
    /\ (lastStep.call = "deliver" /\ ~lastStep.settled /\ ~lastStep.was) =>
           lastStep.hook = "none" /\ lastStep.result = "rejected"
    /\ (lastStep.call = "initialize" /\ ~lastStep.settled /\ lastStep.was) => lastStep.hook = "none"
    /\ (lastStep.call = "close" /\ ~lastStep.settled /\ ~lastStep.was) => lastStep.hook = "none"
    /\ lastStep.hook = "setup" => ~lastStep.was
    /\ lastStep.hook = "teardown" => lastStep.was
    /\ (lastStep.settled /\ lastStep.call = "initialize") =>
           sseInitialized = (lastStep.result = "resolved")
    /\ (lastStep.settled /\ lastStep.call = "close") =>
           sseInitialized = (lastStep.result = "rejected")

TeardownFailed ==
    /\ lastStep.settled
    /\ lastStep.call = "close"
    /\ lastStep.result = "rejected"
    /\ sseInitialized

\* C25: a deliver call of the streaming sink removes from the registry
\* exactly the clients whose write threw; every other client has been
\* written every event of the payload, in order; and the call resolves.
BadClientRemovedAlone ==
    /\ (lastStep.hook = "send" /\ sinkOps # <<>> /\ sinkOps[Len(sinkOps)].ok) =>
           /\ sseClients = Without(lastStep.before, {c \in SseIds : lastStep.fail[c] # 0})
           /\ \A c \in Range(sseClients) : received[c] = lastStep.payload
           /\ \A c \in Range(lastStep.before) \ Range(sseClients) : responses[c] = "ended"
    /\ (lastStep.settled /\ lastStep.call = "deliver") => lastStep.result = "resolved"

FirstClientFailedSecondWritten ==
    /\ lastStep.hook = "send"
    /\ lastStep.before = <<1, 2>>
    /\ lastStep.payload = <<1, 2>>
    /\ lastStep.fail[1] = 2
    /\ received[1] = <<1>>
    /\ received[2] = <<1, 2>>
    /\ sseClients = <<2>>

\* C26: when close() of the streaming sink has completed, no heartbeat timer
\* is active, no client is open and the registry is empty.
CloseLeavesNothing ==
    (lastStep.call = "close" /\ lastStep.result = "resolved") =>
        /\ timers = {}
        /\ sseClients = <<>>
        /\ \A c \in SseIds : responses[c] # "open"


====
